---- MODULE Spec2Model ----
(***************************************************************************)
(* Model of the Wikipedia-to-Notion importer (src/WTNI.py): the block      *)
(* encoder and paginator (parse_html_to_blocks), the append-validation     *)
(* guard (validate_blocks) and the reassembly engine                       *)
(* (combine_pages_into_single) running against a destination store.        *)
(*                                                                         *)
(* Strings are sequences of one-character strings, so that the title       *)
(* tests, the "(Part n)" parsing and the decimal formatting are computed   *)
(* as the code computes them.                                              *)
(***************************************************************************)
EXTENDS Integers, Sequences, FiniteSets, TLC

\* ------------------------------------------------------------------ bounds
\* Largest number of records the collection holds when reassembly starts.
MaxRecords == 4
\* Number of children of every record in the collection.
PageLen == 25

\* Largest number of content elements of a document.
MaxElements == 1
\* Largest number of li items of one list.
MaxItems == 2
\* Largest number of rows of a table, and of cells of a row.
MaxRows == 2
MaxCols == 2
\* Largest max_blocks_per_page the paginator is called with.
MaxM == 3
\* Largest number of blocks of a list handed to validate_blocks directly.
MaxValidate == 2

\* Largest number of runs of add_article_to_database in one process.
MaxRuns == 2
\* Largest number of pages of a document that is uploaded.
MaxPages == 3
\* Largest number of store calls that fail while documents are imported.
MaxFailures == 1
MaxInfoboxRows == 3
MaxStrides == 4
\* Length of the paragraphs of a document that is uploaded.
UploadParagraphLen == 51

\* ------------------------------------------------------- program constants
\* the default of max_blocks_per_page
DefaultMaxBlocks == 90
\* batch_size of combine_pages_into_single
batch_size == 50
\* MAX_LENGTH of parse_html_to_blocks and of validate_blocks
MAX_LENGTH == 2000
\* the stride of safe_chunk_text
ChunkStride == 1800
\* the limit of make_callout and the length it cuts to
CalloutLimit == 2000
CalloutCut == 1997
\* the limit table_text is cut to
TableLimit == 1900
\* paragraphs of at most this length are skipped
MinParagraph == 50
\* list items of at most this length are skipped
MinListItem == 10

\* --------------------------------------------------------- string helpers
Min(a, b) == IF a < b THEN a ELSE b

Digits == <<"0", "1", "2", "3", "4", "5", "6", "7", "8", "9">>

IsDigit(c) == \E d \in 1..10 : Digits[d] = c

DigitVal(c) == (CHOOSE d \in 1..10 : Digits[d] = c) - 1

\* s[a:b] of Python, for 0 <= a
Slice(s, a, b) == SubSeq(s, a + 1, Min(b, Len(s)))

\* sub in s
Contains(s, sub) ==
    \E k \in 0..(Len(s) - Len(sub)) : SubSeq(s, k + 1, k + Len(sub)) = sub

\* s.find(sub): the least offset of sub in s, -1 when there is none
Find(s, sub) ==
    IF Contains(s, sub)
    THEN CHOOSE k \in 0..(Len(s) - Len(sub)) :
            /\ SubSeq(s, k + 1, k + Len(sub)) = sub
            /\ \A j \in 0..(k - 1) : SubSeq(s, j + 1, j + Len(sub)) # sub
    ELSE -1

\* s.split(sep): the segments of s between the occurrences of sep,
\* scanned left to right
RECURSIVE Split(_, _)
Split(s, sep) ==
    LET k == Find(s, sep)
    IN  IF k = -1 THEN <<s>>
        ELSE <<SubSeq(s, 1, k)>> \o Split(SubSeq(s, k + Len(sep) + 1, Len(s)), sep)

\* s.strip() for the blank character
RECURSIVE StripBlanks(_)
StripBlanks(s) ==
    IF s = <<>> THEN s
    ELSE IF Head(s) = " " THEN StripBlanks(Tail(s))
    ELSE IF s[Len(s)] = " " THEN StripBlanks(SubSeq(s, 1, Len(s) - 1))
    ELSE s

RECURSIVE DecimalValue(_)
DecimalValue(s) ==
    IF s = <<>> THEN 0
    ELSE 10 * DecimalValue(SubSeq(s, 1, Len(s) - 1)) + DigitVal(s[Len(s)])

\* int(s): ok is FALSE where Python raises ValueError
ParseInt(s) ==
    LET t == StripBlanks(s)
    IN  IF t # <<>> /\ \A k \in 1..Len(t) : IsDigit(t[k])
        THEN [ok |-> TRUE, val |-> DecimalValue(t)]
        ELSE [ok |-> FALSE, val |-> 0]

\* str(n) for n >= 0
RECURSIVE IntToStr(_)
IntToStr(n) ==
    IF n < 10 THEN <<Digits[n + 1]>>
    ELSE IntToStr(n \div 10) \o <<Digits[(n % 10) + 1]>>

\* f"{title} (Part {i})"
PartName(t, n) == t \o <<" ", "(", "P", "a", "r", "t", " ">> \o IntToStr(n) \o <<")">>

\* f"{title} (Part"
PartMarker(t) == t \o <<" ", "(", "P", "a", "r", "t">>

\* the key of the sort of part_pages:
\* int(name.split("(Part ")[1].split(")")[0]); ok is FALSE where the
\* expression raises IndexError or ValueError
PartKey(name) ==
    LET segs == Split(name, <<"(", "P", "a", "r", "t", " ">>)
    IN  IF Len(segs) < 2 THEN [ok |-> FALSE, val |-> 0]
        ELSE ParseInt(Split(segs[2], <<")">>)[1])

\* list.sort(key=...): stable, ascending by key; key is a function on the
\* elements of s
InsertByKey(sorted, x, key) ==
    LET after == {k \in 1..Len(sorted) : key[sorted[k]] > key[x]}
        pos == IF after = {} THEN Len(sorted) + 1
               ELSE CHOOSE k \in after : \A j \in after : k <= j
    IN  SubSeq(sorted, 1, pos - 1) \o <<x>> \o SubSeq(sorted, pos, Len(sorted))

RECURSIVE SortByKey(_, _)
SortByKey(s, key) ==
    IF s = <<>> THEN <<>>
    ELSE InsertByKey(SortByKey(SubSeq(s, 1, Len(s) - 1), key), s[Len(s)], key)

RECURSIVE Concat(_)
Concat(ss) == IF ss = <<>> THEN <<>> ELSE Head(ss) \o Concat(Tail(ss))

\* ------------------------------------------------------------------ texts
(***************************************************************************)
(* The text of a block is a sequence of pieces.  A piece is a range        *)
(* [lo, hi) of characters of a string: of the n-th text of the source      *)
(* document (s = "src") or of a string literal of the program (n = 0).     *)
(* Adjacent ranges of the same string are merged, so that two texts are    *)
(* equal exactly when they are made of the same characters.                *)
(***************************************************************************)
Piece(s, n, lo, hi) == [s |-> s, n |-> n, lo |-> lo, hi |-> hi]

\* len() of the string literals of the program
LitLen(s) ==
    CASE s = "summary"      -> 129  \* the summary callout text
      [] s = "table_prefix" -> 15   \* the emoji, " Table Data:" and "\n\n"
      [] s = "truncated"    -> 22   \* "\n\n[Table truncated...]"
      [] s = "ellipsis"     -> 3    \* "..."
      [] s = "sep"          -> 3    \* " | "
      [] s = "nl"           -> 1    \* "\n"
      [] s = "edit"         -> 6    \* "[edit]"

Lit(s) == <<Piece(s, 0, 0, LitLen(s))>>

\* the n-th text of the source document, len characters long
Src(n, len) == IF len = 0 THEN <<>> ELSE <<Piece("src", n, 0, len)>>

RECURSIVE TLen(_)
TLen(t) == IF t = <<>> THEN 0 ELSE (Head(t).hi - Head(t).lo) + TLen(Tail(t))

\* a + b
TCat(a, b) ==
    IF a = <<>> THEN b
    ELSE IF b = <<>> THEN a
    ELSE LET x == a[Len(a)]
             y == b[1]
         IN  IF x.s = y.s /\ x.n = y.n /\ x.hi = y.lo
             THEN SubSeq(a, 1, Len(a) - 1) \o <<[x EXCEPT !.hi = y.hi]>> \o Tail(b)
             ELSE a \o b

\* t[:k]
RECURSIVE TTake(_, _)
TTake(t, k) ==
    IF k <= 0 \/ t = <<>> THEN <<>>
    ELSE LET p == Head(t)
             l == p.hi - p.lo
         IN  IF l <= k THEN <<p>> \o TTake(Tail(t), k - l)
             ELSE <<[p EXCEPT !.hi = p.lo + k]>>

\* t[k:]
RECURSIVE TDrop(_, _)
TDrop(t, k) ==
    IF k <= 0 \/ t = <<>> THEN t
    ELSE LET p == Head(t)
             l == p.hi - p.lo
         IN  IF l <= k THEN TDrop(Tail(t), k - l)
             ELSE <<[p EXCEPT !.lo = p.lo + k]>> \o Tail(t)

\* t[a:b]
TSlice(t, a, b) == TTake(TDrop(t, a), b - a)

\* whether character k of piece p is white space; the texts get_text
\* returns with strip=True neither start nor end with white space
IsSpaceAt(p, k) ==
    CASE p.s = "nl"           -> TRUE
      [] p.s = "sep"          -> k \in {0, 2}
      [] p.s = "truncated"    -> k \in {0, 1}
      [] p.s = "table_prefix" -> k \in {1, 7, 13, 14}
      [] OTHER                -> FALSE

\* t.strip()
RECURSIVE TStrip(_)
TStrip(t) ==
    IF t = <<>> THEN t
    ELSE IF IsSpaceAt(Head(t), Head(t).lo) THEN TStrip(TDrop(t, 1))
    ELSE IF IsSpaceAt(t[Len(t)], t[Len(t)].hi - 1) THEN TStrip(TTake(t, TLen(t) - 1))
    ELSE t

\* t.replace(lit, ""), for a text that holds lit only as whole pieces
RECURSIVE TRemove(_, _)
TRemove(t, s) ==
    IF t = <<>> THEN t
    ELSE IF Head(t) = Piece(s, 0, 0, LitLen(s)) THEN TRemove(Tail(t), s)
    ELSE TCat(<<Head(t)>>, TRemove(Tail(t), s))

\* sep.join(ts)
RECURSIVE TJoin(_, _)
TJoin(ts, sep) ==
    IF ts = <<>> THEN <<>>
    ELSE IF Len(ts) = 1 THEN ts[1]
    ELSE TCat(TCat(ts[1], sep), TJoin(Tail(ts), sep))

\* ----------------------------------------------------------------- blocks
make_block(text, block_type) == [type |-> block_type, text |-> text]

make_callout(text, icon) ==
    [type |-> "callout",
     text |-> IF TLen(text) > CalloutLimit
              THEN TCat(TTake(text, CalloutCut), Lit("ellipsis"))
              ELSE text,
     icon |-> icon]

make_divider == [type |-> "divider"]

\* content_key in block and "rich_text" in block[content_key]
HasText(block) == "text" \in DOMAIN block

\* ChunksFrom with slices of MAX_LENGTH characters
RECURSIVE ChunksFromOverlapping(_, _, _)
ChunksFromOverlapping(text, block_type, off) ==
    IF off >= TLen(text) THEN <<>>
    ELSE LET chunk == TSlice(text, off, off + MAX_LENGTH)
             clamped == IF TLen(chunk) > MAX_LENGTH THEN TTake(chunk, MAX_LENGTH) ELSE chunk
         IN  <<make_block(clamped, block_type)>>
             \o ChunksFromOverlapping(text, block_type, off + ChunkStride)

\* the chunks of the loop of safe_chunk_text from offset off
RECURSIVE ChunksFrom(_, _, _)
ChunksFrom(text, block_type, off) ==
    IF off >= TLen(text) THEN <<>>
    ELSE LET chunk == TSlice(text, off, off + ChunkStride)
             clamped == IF TLen(chunk) > MAX_LENGTH THEN TTake(chunk, MAX_LENGTH) ELSE chunk
         IN  <<make_block(clamped, block_type)>>
             \o ChunksFrom(text, block_type, off + ChunkStride)

safe_chunk_text(text, block_type) ==
    IF TLen(text) <= MAX_LENGTH THEN <<make_block(text, block_type)>>
    ELSE ChunksFrom(text, block_type, 0)

\* H2Blocks without the test of the length of the heading
H2BlocksUnchecked(text) ==
    LET t == TRemove(text, "edit")
    IN  IF t # <<>>
        THEN <<make_divider, make_block(t, "heading_2")>>
        ELSE <<>>

\* the blocks of an h2 element whose get_text is text
H2Blocks(text) ==
    LET t == TRemove(text, "edit")
    IN  IF t # <<>> /\ TLen(t) <= MAX_LENGTH
        THEN <<make_divider, make_block(t, "heading_2")>>
        ELSE <<>>

H3Blocks(text) ==
    LET t == TRemove(text, "edit")
    IN  IF t # <<>> /\ TLen(t) <= MAX_LENGTH
        THEN <<make_block(t, "heading_3")>>
        ELSE <<>>

PBlocks(text) ==
    IF text # <<>> /\ TLen(text) > MinParagraph
    THEN safe_chunk_text(text, "paragraph")
    ELSE <<>>

\* the blocks of one li of a ul or ol
ItemBlocks(text, block_type) ==
    IF text # <<>> /\ TLen(text) > MinListItem
    THEN IF TLen(text) <= MAX_LENGTH
         THEN <<make_block(text, block_type)>>
         ELSE safe_chunk_text(text, block_type)
    ELSE <<>>

RECURSIVE ListBlocks(_, _)
ListBlocks(items, block_type) ==
    IF items = <<>> THEN <<>>
    ELSE ItemBlocks(Head(items), block_type) \o ListBlocks(Tail(items), block_type)

\* table_text after the loop over the rows; a row is the sequence of the
\* texts of its cells
RECURSIVE TableText(_)
TableText(rows) ==
    IF rows = <<>> THEN <<>>
    ELSE TCat(TCat(TJoin(Head(rows), Lit("sep")), Lit("nl")), TableText(Tail(rows)))

TableBlocks(rows) ==
    LET stripped == TStrip(TableText(rows))
        cut == IF TLen(stripped) > TableLimit
               THEN TCat(TTake(stripped, TableLimit), Lit("truncated"))
               ELSE stripped
    IN  IF stripped # <<>>
        THEN <<make_callout(TCat(Lit("table_prefix"), cut), "chart")>>
        ELSE <<>>

\* PageChunksFrom with slices one block too long
RECURSIVE PageChunksOverlong(_, _, _)
PageChunksOverlong(blocks, off, m) ==
    IF off >= Len(blocks) THEN <<>>
    ELSE <<Slice(blocks, off, off + m + 1)>> \o PageChunksOverlong(blocks, off + m, m)

\* PageChunksFrom with a stride one block too long
RECURSIVE PageChunksSkipping(_, _, _)
PageChunksSkipping(blocks, off, m) ==
    IF off >= Len(blocks) THEN <<>>
    ELSE <<Slice(blocks, off, off + m)>> \o PageChunksSkipping(blocks, off + m + 1, m)

\* the pages of the last loop of parse_html_to_blocks from offset off
RECURSIVE PageChunksFrom(_, _, _)
PageChunksFrom(blocks, off, m) ==
    IF off >= Len(blocks) THEN <<>>
    ELSE <<Slice(blocks, off, off + m)>> \o PageChunksFrom(blocks, off + m, m)

\* --------------------------------------------------------- validate_blocks
\* ValidateBlock cutting the way make_callout does, to CalloutCut characters
\* and "..."
ValidateBlockEllipsis(block) ==
    IF HasText(block) /\ TLen(block.text) > MAX_LENGTH
    THEN [block EXCEPT !.text = TCat(TTake(block.text, CalloutCut), Lit("ellipsis"))]
    ELSE block

ValidateBlock(block) ==
    IF HasText(block) /\ TLen(block.text) > MAX_LENGTH
    THEN [block EXCEPT !.text = TTake(block.text, MAX_LENGTH)]
    ELSE block

validate_blocks(blocks) == [k \in 1..Len(blocks) |-> ValidateBlock(blocks[k])]

\* ------------------------------------------------------------ the store
\* The title whose group is reassembled.
TheTitle == <<"T">>

\* Display names a record of the collection may have: the primary of the
\* title, its parts, records of other documents whose names contain the
\* title or not, and names that contain the part marker without a number.
RecordNames ==
    { TheTitle,
      PartName(TheTitle, 2),
      PartName(TheTitle, 3),
      PartName(TheTitle, 10),
      PartName(<<"A">> \o TheTitle, 2),
      TheTitle \o <<" ", "(", "P", "a", "r", "t", "i", "a", "l", ")">>,
      <<"A">> \o TheTitle,
      <<"B">> }

\* A block stored by the destination: the k-th child created with record id
Block(id, k) == <<id, k>>

NewRecord(id, name) ==
    [name |-> name,
     children |-> [k \in 1..PageLen |-> Block(id, k)],
     archived |-> FALSE]

\* Collections of at most MaxRecords records with distinct names, in the
\* order in which the store lists them
InitialStores ==
    LET namings == UNION {[1..n -> RecordNames] : n \in 0..MaxRecords}
    IN  { [id \in DOMAIN f |-> NewRecord(id, f[id])] :
            f \in {g \in namings : \A a, b \in DOMAIN g : a # b => g[a] # g[b]} }

VARIABLES
    title,        \* the title argument of combine_pages_into_single
    store,        \* the records of the collection, by record id
    orig,         \* the collection as it was when reassembly started
    pc,           \* position in combine_pages_into_single
    pages,        \* ids returned by get_database_pages
    main_page,    \* id of the primary, 0 for None
    part_pages,   \* ids of the auxiliaries
    all_blocks,   \* the collected blocks
    i,            \* offset of the next batch in all_blocks
    part_idx,     \* index in part_pages of the collection loop
    arch_idx,     \* index in part_pages of the retirement loop
    result,       \* "pending", "None", "main_id" or "raise"
    fetchLog,     \* the get_page_blocks calls made, in order
    appendLog,    \* the blocks.children.append calls made, in order
    archiveLog,   \* the pages.update(archived=True) calls made, in order
    ppc,          \* position in parse_html_to_blocks and validate_blocks
    doc_blocks,   \* all_blocks of parse_html_to_blocks
    n_elems,      \* number of elements of the document processed
    max_blocks_per_page,
    page_chunks,  \* the pages parse_html_to_blocks returns
    blocks_in,    \* the argument of validate_blocks
    validated,    \* the list validate_blocks returns
    excludes_archived,  \* whether databases.query leaves out archived pages
    fail_budget,  \* number of store calls that may still fail, -1: any number
    NOTION_DATABASE_ID, \* the global of WTNI.py, 0 for None
    databases,    \* the databases created, by id: name and columns
    upc,          \* position in add_article_to_database
    run,          \* number of calls of add_article_to_database so far
    html,         \* the document fetched: its infobox and its paragraphs
    infobox_data, \* the mapping extract_infobox returns
    chunk_idx,    \* index in page_chunks of the next page to create
    createLog,    \* the pages.create calls of the current run, in order
    dbLog,        \* the create_database calls made, in order
    text,         \* the text argument of safe_chunk_text
    block_type,   \* the block_type argument of safe_chunk_text
    chunks_out,   \* the list safe_chunk_text returns, <<>> before the call
    url_var,      \* the text of the URL entry of the window
    token_var,    \* the text of the token entry
    page_id_var,  \* the text of the parent page entry
    import_button,  \* state of the import button: "normal" or "disabled"
    preview_button, \* state of the preview button
    progress,     \* whether the progress bar is running
    status_label, \* the text of the status label
    messagebox,   \* the modal dialog that is open: "none", "error" or "info"
    import_threads, \* the import threads started, in order: position, url
    after_queue   \* the import_complete calls root.after has scheduled

combineVars == <<title, store, orig, pc, pages, main_page, part_pages,
                 all_blocks, i, part_idx, arch_idx, result, fetchLog,
                 appendLog, archiveLog>>

parseVars == <<ppc, doc_blocks, n_elems, max_blocks_per_page, page_chunks,
               blocks_in, validated>>

uploadVars == <<NOTION_DATABASE_ID, databases, upc, run, html, infobox_data,
                chunk_idx, createLog, dbLog>>

chunkVars == <<text, block_type, chunks_out>>

guiVars == <<url_var, token_var, page_id_var, import_button, preview_button,
             progress, status_label, messagebox, import_threads, after_queue>>

\* the variables combine_pages_into_single leaves alone
notCombineVars == <<parseVars, uploadVars, chunkVars, guiVars, excludes_archived>>

\* a store call may fail, and one has failed
CanFail == fail_budget # 0

Failed == fail_budget' = IF fail_budget > 0 THEN fail_budget - 1 ELSE fail_budget

\* the variables parse_html_to_blocks and validate_blocks leave alone
notParseVars == <<combineVars, uploadVars, chunkVars, guiVars, excludes_archived>>

vars == <<combineVars, parseVars, uploadVars, chunkVars, guiVars, excludes_archived,
          fail_budget>>

\* the window as setup_ui leaves it, with empty entries
GuiIdle ==
    /\ url_var = <<>>
    /\ token_var = <<>>
    /\ page_id_var = <<>>
    /\ import_button = "normal"
    /\ preview_button = "normal"
    /\ progress = FALSE
    /\ status_label = "Ready to import!"
    /\ messagebox = "none"
    /\ import_threads = <<>>
    /\ after_queue = <<>>

\* safe_chunk_text is not under way
ChunkIdle == text = <<>> /\ block_type = "paragraph" /\ chunks_out = <<>>

\* a document without infobox and without paragraphs
NoDocument == [infobox |-> [present |-> FALSE, rows |-> <<>>], paragraphs |-> 0]

\* no call of add_article_to_database was made
UploadIdle ==
    /\ NOTION_DATABASE_ID = 0
    /\ databases = <<>>
    /\ upc = "idle"
    /\ run = 0
    /\ html = NoDocument
    /\ infobox_data = <<>>
    /\ chunk_idx = 1
    /\ createLog = <<>>
    /\ dbLog = <<>>

NameOf(id) == store[id].name

\* no call of parse_html_to_blocks or validate_blocks is under way
ParseIdle ==
    /\ ppc = "idle"
    /\ doc_blocks = <<>>
    /\ n_elems = 0
    /\ max_blocks_per_page = 0
    /\ page_chunks = <<>>
    /\ blocks_in = <<>>
    /\ validated = <<>>

\* combine_pages_into_single is called for TheTitle on a collection
Init ==
    /\ ParseIdle
    /\ UploadIdle
    /\ excludes_archived = FALSE
    /\ ChunkIdle
    /\ GuiIdle
    /\ fail_budget = -1
    /\ title = TheTitle
    /\ store \in InitialStores
    /\ orig = store
    /\ pc = "query"
    /\ pages = <<>>
    /\ main_page = 0
    /\ part_pages = <<>>
    /\ all_blocks = <<>>
    /\ i = 0
    /\ part_idx = 1
    /\ arch_idx = 1
    /\ result = "pending"
    /\ fetchLog = <<>>
    /\ appendLog = <<>>
    /\ archiveLog = <<>>

\* ------------------------------------------------- get_database_pages
\* databases.query with the filter Name contains title
QueryByNameContains(t) ==
    SelectSeq([id \in 1..Len(store) |-> id],
              LAMBDA id : /\ Contains(NameOf(id), t)
                          /\ ~(excludes_archived /\ store[id].archived))

\* get_database_pages returns the results and combine_pages_into_single
\* returns None when there are none
GetDatabasePages ==
    /\ pc = "query"
    /\ pages' = QueryByNameContains(title)
    /\ IF pages' = <<>>
       THEN pc' = "done" /\ result' = "None"
       ELSE pc' = "classify" /\ result' = result
    /\ UNCHANGED <<arch_idx, title, store, orig, main_page, part_pages, all_blocks, i,
                   part_idx, fetchLog, appendLog, archiveLog>>
    /\ UNCHANGED notCombineVars
    /\ UNCHANGED fail_budget

\* the query raises: get_database_pages returns []
GetDatabasePagesFails ==
    /\ pc = "query"
    /\ pages' = <<>>
    /\ pc' = "done"
    /\ result' = "None"
    /\ UNCHANGED <<arch_idx, title, store, orig, main_page, part_pages, all_blocks, i,
                   part_idx, fetchLog, appendLog, archiveLog>>
    /\ UNCHANGED notCombineVars
    /\ CanFail
    /\ Failed

\* ------------------------------------------------------ classification
IsMainName(name, t) == name = t

IsPartName(name, t) == name # t /\ Contains(name, PartMarker(t))

\* main_page after the loop over pages: the last page named title
MainOf(ps, t) ==
    LET hits == {k \in 1..Len(ps) : IsMainName(NameOf(ps[k]), t)}
    IN  IF hits = {} THEN 0
        ELSE ps[CHOOSE k \in hits : \A j \in hits : j <= k]

PartsOf(ps, t) == SelectSeq(ps, LAMBDA id : IsPartName(NameOf(id), t))

\* the rank of a string of at most width digits in the lexical order
RECURSIVE LexRank(_, _)
LexRank(digits, width) ==
    IF width = 0 THEN 0
    ELSE IF digits = <<>> THEN 0
    ELSE (DigitVal(Head(digits)) + 1) * 11^(width - 1) + LexRank(Tail(digits), width - 1)

\* SortParts with the part numbers compared as strings
SortPartsLexical(ps) ==
    SortByKey(ps, [id \in {ps[k] : k \in 1..Len(ps)} |->
        LexRank(IntToStr(PartKey(NameOf(id)).val), 3)])

\* part_pages.sort(key=...)
SortParts(ps) ==
    SortByKey(ps, [id \in {ps[k] : k \in 1..Len(ps)} |-> PartKey(NameOf(id)).val])

\* the loop over pages, the sort and the test for a missing main page
Classify ==
    /\ pc = "classify"
    /\ main_page' = MainOf(pages, title)
    /\ LET parts == PartsOf(pages, title)
       IN  IF \E k \in 1..Len(parts) : ~PartKey(NameOf(parts[k])).ok
           THEN /\ part_pages' = parts
                /\ pc' = "done"
                /\ result' = "raise"
           ELSE /\ part_pages' = SortParts(parts)
                /\ IF main_page' = 0
                   THEN pc' = "done" /\ result' = "None"
                   ELSE pc' = "get_main" /\ result' = result
    /\ UNCHANGED <<arch_idx, title, store, orig, pages, all_blocks, i, part_idx,
                   fetchLog, appendLog, archiveLog>>
    /\ UNCHANGED notCombineVars
    /\ UNCHANGED fail_budget

\* ---------------------------------------------------- block collection
AfterAppend == IF part_pages = <<>> THEN "return" ELSE "archive"

AfterCollect(blocks) == IF blocks = <<>> THEN AfterAppend ELSE "append"

AfterFetch(idx, blocks) ==
    IF idx > Len(part_pages) THEN AfterCollect(blocks) ELSE "get_parts"

\* get_page_blocks: blocks.children.list
GetPageBlocks(id) == store[id].children

GetMainBlocks ==
    /\ pc = "get_main"
    /\ all_blocks' = all_blocks \o GetPageBlocks(main_page)
    /\ fetchLog' = Append(fetchLog, [id |-> main_page, ok |-> TRUE])
    /\ part_idx' = 1
    /\ pc' = AfterFetch(1, all_blocks')
    /\ UNCHANGED <<arch_idx, title, store, orig, pages, main_page, part_pages, i,
                   result, appendLog, archiveLog>>
    /\ UNCHANGED notCombineVars
    /\ UNCHANGED fail_budget

\* the list call raises: get_page_blocks returns []
GetMainBlocksFails ==
    /\ pc = "get_main"
    /\ all_blocks' = all_blocks
    /\ fetchLog' = Append(fetchLog, [id |-> main_page, ok |-> FALSE])
    /\ part_idx' = 1
    /\ pc' = AfterFetch(1, all_blocks')
    /\ UNCHANGED <<arch_idx, title, store, orig, pages, main_page, part_pages, i,
                   result, appendLog, archiveLog>>
    /\ UNCHANGED notCombineVars
    /\ CanFail
    /\ Failed

GetPartBlocks ==
    /\ pc = "get_parts"
    /\ all_blocks' = all_blocks \o GetPageBlocks(part_pages[part_idx])
    /\ fetchLog' = Append(fetchLog, [id |-> part_pages[part_idx], ok |-> TRUE])
    /\ part_idx' = part_idx + 1
    /\ pc' = AfterFetch(part_idx', all_blocks')
    /\ UNCHANGED <<arch_idx, title, store, orig, pages, main_page, part_pages, i,
                   result, appendLog, archiveLog>>
    /\ UNCHANGED notCombineVars
    /\ UNCHANGED fail_budget

GetPartBlocksFails ==
    /\ pc = "get_parts"
    /\ all_blocks' = all_blocks
    /\ fetchLog' = Append(fetchLog, [id |-> part_pages[part_idx], ok |-> FALSE])
    /\ part_idx' = part_idx + 1
    /\ pc' = AfterFetch(part_idx', all_blocks')
    /\ UNCHANGED <<arch_idx, title, store, orig, pages, main_page, part_pages, i,
                   result, appendLog, archiveLog>>
    /\ UNCHANGED notCombineVars
    /\ CanFail
    /\ Failed

\* ------------------------------------------------ re-append in batches
\* BatchAt with slices one block too long
BatchAtOverlong(blocks, off) == Slice(blocks, off, off + batch_size + 1)

\* all_blocks[i:i + batch_size]
BatchAt(blocks, off) == Slice(blocks, off, off + batch_size)

\* blocks.children.append on the main page
AppendBatch ==
    /\ pc = "append"
    /\ LET batch == BatchAt(all_blocks, i)
       IN  /\ store' = [store EXCEPT ![main_page].children = @ \o batch]
           /\ appendLog' = Append(appendLog, [id |-> main_page, batch |-> batch, ok |-> TRUE])
    /\ i' = i + batch_size
    /\ pc' = IF i' < Len(all_blocks) THEN "append" ELSE AfterAppend
    /\ UNCHANGED <<part_idx, arch_idx, title, orig, pages, main_page, part_pages, all_blocks,
                   result, fetchLog, archiveLog>>
    /\ UNCHANGED notCombineVars
    /\ UNCHANGED fail_budget

\* AppendBatchFails with the exception swallowed inside the loop
AppendBatchFailsSwallowed ==
    /\ pc = "append"
    /\ appendLog' = Append(appendLog,
                           [id |-> main_page, batch |-> Slice(all_blocks, i, i + batch_size),
                            ok |-> FALSE])
    /\ i' = i + batch_size
    /\ pc' = IF i' < Len(all_blocks) THEN "append"
             ELSE IF part_pages = <<>> THEN "return" ELSE "archive"
    /\ UNCHANGED <<title, store, orig, pages, main_page, part_pages, all_blocks,
                   part_idx, arch_idx, result, fetchLog, archiveLog>>
    /\ UNCHANGED notCombineVars
    /\ CanFail
    /\ Failed

\* the append raises: the handler of the outer try returns None
AppendBatchFails ==
    /\ pc = "append"
    /\ appendLog' = Append(appendLog,
                           [id |-> main_page, batch |-> BatchAt(all_blocks, i), ok |-> FALSE])
    /\ pc' = "done"
    /\ result' = "None"
    /\ UNCHANGED <<arch_idx, title, store, orig, pages, main_page, part_pages, all_blocks,
                   i, part_idx, fetchLog, archiveLog>>
    /\ UNCHANGED notCombineVars
    /\ CanFail
    /\ Failed

\* ----------------------------------------------------------- retirement
AfterArchive(idx) == IF idx > Len(part_pages) THEN "return" ELSE "archive"

\* ArchivePart with the main page retired with the last part page
ArchivePartAndMain ==
    /\ pc = "archive"
    /\ store' = [id \in 1..Len(store) |->
                    IF \/ id = part_pages[arch_idx]
                       \/ id = main_page /\ arch_idx = Len(part_pages)
                    THEN [store[id] EXCEPT !.archived = TRUE]
                    ELSE store[id]]
    /\ archiveLog' = Append(archiveLog, [id |-> part_pages[arch_idx], ok |-> TRUE])
    /\ arch_idx' = arch_idx + 1
    /\ pc' = AfterArchive(arch_idx')
    /\ UNCHANGED <<part_idx, title, orig, pages, main_page, part_pages, all_blocks, i,
                   result, fetchLog, appendLog>>
    /\ UNCHANGED notCombineVars
    /\ UNCHANGED fail_budget

\* pages.update(archived=True) on one part page
ArchivePart ==
    /\ pc = "archive"
    /\ store' = [store EXCEPT ![part_pages[arch_idx]].archived = TRUE]
    /\ archiveLog' = Append(archiveLog, [id |-> part_pages[arch_idx], ok |-> TRUE])
    /\ arch_idx' = arch_idx + 1
    /\ pc' = AfterArchive(arch_idx')
    /\ UNCHANGED <<part_idx, title, orig, pages, main_page, part_pages, all_blocks, i,
                   result, fetchLog, appendLog>>
    /\ UNCHANGED notCombineVars
    /\ UNCHANGED fail_budget

\* ArchivePartFails with the exception reaching the outer handler
ArchivePartFailsAborts ==
    /\ pc = "archive"
    /\ archiveLog' = Append(archiveLog, [id |-> part_pages[arch_idx], ok |-> FALSE])
    /\ pc' = "done"
    /\ result' = "None"
    /\ UNCHANGED <<title, store, orig, pages, main_page, part_pages, all_blocks,
                   i, part_idx, arch_idx, fetchLog, appendLog>>
    /\ UNCHANGED notCombineVars
    /\ CanFail
    /\ Failed

\* the update raises: the inner handler prints a warning and the loop goes on
ArchivePartFails ==
    /\ pc = "archive"
    /\ archiveLog' = Append(archiveLog, [id |-> part_pages[arch_idx], ok |-> FALSE])
    /\ arch_idx' = arch_idx + 1
    /\ pc' = AfterArchive(arch_idx')
    /\ UNCHANGED <<part_idx, title, store, orig, pages, main_page, part_pages, all_blocks,
                   i, result, fetchLog, appendLog>>
    /\ UNCHANGED notCombineVars
    /\ CanFail
    /\ Failed

\* return main_page["id"]
ReturnMainId ==
    /\ pc = "return"
    /\ result' = "main_id"
    /\ pc' = "done"
    /\ UNCHANGED <<arch_idx, title, store, orig, pages, main_page, part_pages, all_blocks,
                   i, part_idx, fetchLog, appendLog, archiveLog>>
    /\ UNCHANGED notCombineVars
    /\ UNCHANGED fail_budget

Next ==
    \/ GetDatabasePages
    \/ GetDatabasePagesFails
    \/ Classify
    \/ GetMainBlocks
    \/ GetMainBlocksFails
    \/ GetPartBlocks
    \/ GetPartBlocksFails
    \/ AppendBatch
    \/ AppendBatchFails
    \/ ArchivePart
    \/ ArchivePartFails
    \/ ReturnMainId

Spec == Init /\ [][Next]_vars

\* ------------------------------------------------- parse_html_to_blocks
\* Lengths of the texts get_text returns for the elements of a document
HeadingLens == {0, 1, 2000, 2001}
ParagraphLens == {50, 51, 2000, 2001, 4500}
ItemLens == {10, 11, 2000, 2001}
CellLens == {0, 1, 1900}
\* Lengths of the texts of blocks handed to validate_blocks directly
ValidateLens == {0, 2000, 2001, 4500}

\* no call of combine_pages_into_single is under way
CombineIdle ==
    /\ title = TheTitle
    /\ store = <<>>
    /\ orig = <<>>
    /\ pc = "idle"
    /\ pages = <<>>
    /\ main_page = 0
    /\ part_pages = <<>>
    /\ all_blocks = <<>>
    /\ i = 0
    /\ part_idx = 1
    /\ arch_idx = 1
    /\ result = "pending"
    /\ fetchLog = <<>>
    /\ appendLog = <<>>
    /\ archiveLog = <<>>

\* parse_html_to_blocks or validate_blocks is about to be called
InitParse ==
    /\ CombineIdle
    /\ UploadIdle
    /\ excludes_archived = FALSE
    /\ ChunkIdle
    /\ GuiIdle
    /\ fail_budget = -1
    /\ ppc = "start"
    /\ doc_blocks = <<>>
    /\ n_elems = 0
    /\ max_blocks_per_page = 0
    /\ page_chunks = <<>>
    /\ blocks_in = <<>>
    /\ validated = <<>>

\* StartParse without the summary callout and the divider
StartParseEmpty ==
    /\ ppc = "start"
    /\ doc_blocks' = <<>>
    /\ ppc' = "elements"
    /\ UNCHANGED <<n_elems, max_blocks_per_page, page_chunks, blocks_in, validated>>
    /\ UNCHANGED notParseVars
    /\ UNCHANGED fail_budget

\* the summary callout and the divider that start every document
StartParse ==
    /\ ppc = "start"
    /\ doc_blocks' = <<make_callout(Lit("summary"), "books"), make_divider>>
    /\ ppc' = "elements"
    /\ UNCHANGED <<n_elems, max_blocks_per_page, page_chunks, blocks_in, validated>>
    /\ UNCHANGED notParseVars
    /\ UNCHANGED fail_budget

\* one more element of soup.find_all adds bs to all_blocks
AddBlocks(bs) ==
    /\ ppc = "elements"
    /\ n_elems < MaxElements
    /\ doc_blocks' = doc_blocks \o bs
    /\ n_elems' = n_elems + 1
    /\ UNCHANGED <<ppc, max_blocks_per_page, page_chunks, blocks_in, validated>>
    /\ UNCHANGED notParseVars
    /\ UNCHANGED fail_budget

\* the text of a heading: len characters, followed by "[edit]" or not
HeadingText(n, len, edit) ==
    TCat(Src(n, len), IF edit THEN Lit("edit") ELSE <<>>)

ParseH2 ==
    \E len \in HeadingLens, edit \in BOOLEAN :
        AddBlocks(H2Blocks(HeadingText(n_elems + 1, len, edit)))

ParseH3 ==
    \E len \in HeadingLens, edit \in BOOLEAN :
        AddBlocks(H3Blocks(HeadingText(n_elems + 1, len, edit)))

ParseP ==
    \E len \in ParagraphLens :
        AddBlocks(PBlocks(Src(n_elems + 1, len)))

\* the texts of the li items of the list that is element e
ItemTexts(e, lens) == [k \in 1..Len(lens) |-> Src(100 * e + k, lens[k])]

ItemLenSeqs == UNION {[1..n -> ItemLens] : n \in 0..MaxItems}

ParseUL ==
    \E lens \in ItemLenSeqs :
        AddBlocks(ListBlocks(ItemTexts(n_elems + 1, lens), "bulleted_list_item"))

ParseOL ==
    \E lens \in ItemLenSeqs :
        AddBlocks(ListBlocks(ItemTexts(n_elems + 1, lens), "numbered_list_item"))

\* the texts of the cells of the rows of the table that is element e
CellTexts(e, rows) ==
    [r \in 1..Len(rows) |->
        [c \in 1..Len(rows[r]) |-> Src(100 * e + 10 * r + c, rows[r][c])]]

RowLenSeqs == UNION {[1..n -> CellLens] : n \in 0..MaxCols}

TableLenSeqs == UNION {[1..n -> RowLenSeqs] : n \in 0..MaxRows}

ParseTable ==
    \E rows \in TableLenSeqs :
        AddBlocks(TableBlocks(CellTexts(n_elems + 1, rows)))

\* Paginate with the summary callout repeated at the head of every page
PaginateWithSummary ==
    /\ ppc = "elements"
    /\ \E m \in 1..MaxM :
        /\ max_blocks_per_page' = m
        /\ page_chunks' =
            LET ps == PageChunksFrom(doc_blocks, 0, m)
            IN  [p \in 1..Len(ps) |->
                    IF p = 1 THEN ps[p] ELSE <<doc_blocks[1]>> \o ps[p]]
    /\ ppc' = "paged"
    /\ UNCHANGED <<doc_blocks, n_elems, blocks_in, validated>>
    /\ UNCHANGED notParseVars
    /\ UNCHANGED fail_budget

\* the split into pages and the return of parse_html_to_blocks
Paginate ==
    /\ ppc = "elements"
    /\ \E m \in 1..MaxM :
        /\ max_blocks_per_page' = m
        /\ page_chunks' = PageChunksFrom(doc_blocks, 0, m)
    /\ ppc' = "paged"
    /\ UNCHANGED <<doc_blocks, n_elems, blocks_in, validated>>
    /\ UNCHANGED notParseVars
    /\ UNCHANGED fail_budget

\* validate_blocks on one of the pages, as add_article_to_database calls it
ValidateChunk ==
    /\ ppc = "paged"
    /\ \E k \in 1..Len(page_chunks) :
        /\ blocks_in' = page_chunks[k]
        /\ validated' = validate_blocks(page_chunks[k])
    /\ ppc' = "validated"
    /\ UNCHANGED <<doc_blocks, n_elems, max_blocks_per_page, page_chunks>>
    /\ UNCHANGED notParseVars
    /\ UNCHANGED fail_budget

\* a block of the given kind with a text of len characters of text n
SampleBlock(kind, len, n) ==
    CASE kind = "divider" -> make_divider
      [] kind = "callout" -> [type |-> "callout", text |-> Src(n, len), icon |-> "books"]
      [] OTHER            -> make_block(Src(n, len), kind)

SampleKinds == {"divider", "callout", "paragraph"}

SampleLists ==
    UNION { { [k \in 1..n |-> SampleBlock(f[k][1], f[k][2], k)] :
                f \in [1..n -> SampleKinds \X ValidateLens] } :
            n \in 0..MaxValidate }

\* validate_blocks on any list of blocks
ValidateInput ==
    /\ ppc = "start"
    /\ \E blocks \in SampleLists :
        /\ blocks_in' = blocks
        /\ validated' = validate_blocks(blocks)
    /\ ppc' = "validated"
    /\ UNCHANGED <<doc_blocks, n_elems, max_blocks_per_page, page_chunks>>
    /\ UNCHANGED notParseVars
    /\ UNCHANGED fail_budget

NextParse ==
    \/ StartParse
    \/ ParseH2
    \/ ParseH3
    \/ ParseP
    \/ ParseUL
    \/ ParseOL
    \/ ParseTable
    \/ Paginate
    \/ ValidateChunk
    \/ ValidateInput

SpecParse == InitParse /\ [][NextParse]_vars

\* ------------------------------------------------------- extract_infobox
\* A row of the infobox: whether row.find("th") and row.find("td") find a
\* cell, and the text of each cell, one text node, as a sequence of
\* characters
InfoboxRow(has_th, th, has_td, td) ==
    [has_th |-> has_th, th |-> th, has_td |-> has_td, td |-> td]

\* data[key] = value
DictSet(data, key, value) ==
    [k \in DOMAIN data \cup {key} |-> IF k = key THEN value ELSE data[k]]

\* get_text(" ", strip=True) of a cell of one text node
GetText(cell) == StripBlanks(cell)

\* ExtractRow with the value of the first row of a key kept
ExtractRowFirstWins(data, row) ==
    IF /\ row.has_th /\ row.has_td
       /\ GetText(row.th) # <<>> /\ GetText(row.td) # <<>>
       /\ GetText(row.th) \notin DOMAIN data
    THEN DictSet(data, GetText(row.th), GetText(row.td))
    ELSE data

\* the body of the loop over the rows
ExtractRow(data, row) ==
    IF row.has_th /\ row.has_td /\ GetText(row.th) # <<>> /\ GetText(row.td) # <<>>
    THEN DictSet(data, GetText(row.th), GetText(row.td))
    ELSE data

RECURSIVE ExtractRows(_, _)
ExtractRows(data, rows) ==
    IF rows = <<>> THEN data
    ELSE ExtractRows(ExtractRow(data, Head(rows)), Tail(rows))

\* infobox is what soup.find("table", class_="infobox") returns
extract_infobox(infobox) ==
    IF infobox.present THEN ExtractRows(<<>>, infobox.rows) ELSE <<>>

\* the texts of the header cells and of the data cells of the infoboxes
\* extract_infobox is applied to
Born == <<"B", "o", "r", "n">>

Died == <<"D", "i", "e", "d">>

Jan1900 == <<"1", " ", "J", "a", "n", " ", "1", "9", "0", "0">>

Feb2000 == <<"2", " ", "F", "e", "b", " ", "2", "0", "0", "0">>

Ignored == <<"i", "g", "n", "o", "r", "e", "d">>

HeaderTexts == {<<>>, Born, <<" ">> \o Born \o <<" ">>, Died}

DataTexts == {<<" ">>, Jan1900, Feb2000, Ignored}

InfoboxRows ==
    {InfoboxRow(TRUE, th, TRUE, td) : th \in HeaderTexts, td \in DataTexts}
    \cup {InfoboxRow(FALSE, <<>>, TRUE, td) : td \in DataTexts}
    \cup {InfoboxRow(TRUE, th, FALSE, <<>>) : th \in HeaderTexts}
    \cup {InfoboxRow(FALSE, <<>>, FALSE, <<>>)}

RowSeqs == UNION {[1..n -> InfoboxRows] : n \in 0..MaxInfoboxRows}

Infoboxes ==
    {[present |-> FALSE, rows |-> <<>>]}
    \cup {[present |-> TRUE, rows |-> rows] : rows \in RowSeqs}

\* the call of extract_infobox on the fetched document
ExtractInfobox ==
    /\ upc = "idle"
    /\ infobox_data' = extract_infobox(html.infobox)
    /\ upc' = "extracted"
    /\ UNCHANGED <<NOTION_DATABASE_ID, databases, run, html, chunk_idx, createLog,
                   dbLog, excludes_archived>>
    /\ UNCHANGED chunkVars
    /\ UNCHANGED guiVars
    /\ UNCHANGED combineVars
    /\ UNCHANGED parseVars
    /\ UNCHANGED fail_budget

\* ----------------------------------------------- add_article_to_database
\* The documents that are imported: a document of MaxPages pages with an
\* infobox, a document of one page without infobox, and a document of two
\* pages with an infobox, whose title contains the title of the first
Document(t, box, n_pages) ==
    [title |-> t, infobox |-> box,
     paragraphs |-> IF n_pages = 1 THEN 0 ELSE (n_pages - 1) * DefaultMaxBlocks - 1]

NoInfobox == [present |-> FALSE, rows |-> <<>>]

BornInfobox ==
    [present |-> TRUE, rows |-> <<InfoboxRow(TRUE, Born, TRUE, Jan1900)>>]

Documents ==
    { Document(TheTitle, BornInfobox, MaxPages),
      Document(<<"A">> \o TheTitle, NoInfobox, 1),
      Document(<<"A">> \o TheTitle, BornInfobox, 2) }

\* the blocks of the paragraphs lo..hi of a document, each of
\* UploadParagraphLen characters
RECURSIVE ParagraphBlocks(_, _)
ParagraphBlocks(lo, hi) ==
    IF lo > hi THEN <<>>
    ELSE IF lo = hi THEN PBlocks(Src(lo, UploadParagraphLen))
    ELSE LET mid == (lo + hi) \div 2
         IN  ParagraphBlocks(lo, mid) \o ParagraphBlocks(mid + 1, hi)

\* parse_html_to_blocks(html)
ParsedPages(doc) ==
    PageChunksFrom(<<make_callout(Lit("summary"), "books"), make_divider>>
                       \o ParagraphBlocks(1, doc.paragraphs),
                   0, DefaultMaxBlocks)

\* AfterFetchArticle without the test of NOTION_DATABASE_ID
AfterFetchArticleAlways(dbid) == "create_db"

\* the test NOTION_DATABASE_ID is None
AfterFetchArticle(dbid) == IF dbid = 0 THEN "create_db" ELSE "create_main"

\* fetch_wikipedia_html and extract_infobox
FetchArticle ==
    /\ upc = "idle"
    /\ run < MaxRuns
    /\ run' = run + 1
    /\ \E doc \in Documents :
        /\ title' = doc.title
        /\ html' = [infobox |-> doc.infobox, paragraphs |-> doc.paragraphs]
        /\ infobox_data' = extract_infobox(doc.infobox)
    /\ createLog' = <<>>
    /\ chunk_idx' = 1
    /\ page_chunks' = <<>>
    /\ upc' = AfterFetchArticle(NOTION_DATABASE_ID)
    /\ UNCHANGED <<NOTION_DATABASE_ID, databases, dbLog, excludes_archived>>
    /\ UNCHANGED chunkVars
    /\ UNCHANGED guiVars
    /\ UNCHANGED <<store, orig, pc, pages, main_page, part_pages, all_blocks, i,
                   part_idx, arch_idx, result, fetchLog, appendLog, archiveLog>>
    /\ UNCHANGED <<ppc, doc_blocks, n_elems, max_blocks_per_page, blocks_in, validated>>
    /\ UNCHANGED fail_budget

\* fetch_wikipedia_html raises: the call of add_article_to_database ends
FetchArticleFails ==
    /\ upc = "idle"
    /\ run < MaxRuns
    /\ run' = run + 1
    /\ createLog' = <<>>
    /\ UNCHANGED <<NOTION_DATABASE_ID, databases, upc, html, infobox_data,
                   chunk_idx, dbLog, excludes_archived>>
    /\ UNCHANGED chunkVars
    /\ UNCHANGED guiVars
    /\ UNCHANGED combineVars
    /\ UNCHANGED parseVars
    /\ CanFail
    /\ Failed

\* the columns of the database: list(infobox_data.keys())
Columns(data) == DOMAIN data

\* db_name: f"Wikipedia: {title}"
DbName(t) == <<"W", "i", "k", "i", "p", "e", "d", "i", "a", ":", " ">> \o t

\* create_database
CreateDatabase ==
    /\ upc = "create_db"
    /\ databases' = Append(databases,
            [name |-> DbName(title), columns |-> Columns(infobox_data)])
    /\ NOTION_DATABASE_ID' = Len(databases')
    /\ dbLog' = Append(dbLog, [run |-> run, ok |-> TRUE])
    /\ upc' = "create_main"
    /\ UNCHANGED <<run, html, infobox_data, chunk_idx, createLog, excludes_archived>>
    /\ UNCHANGED chunkVars
    /\ UNCHANGED guiVars
    /\ UNCHANGED combineVars
    /\ UNCHANGED parseVars
    /\ UNCHANGED fail_budget

\* create_database raises: add_article_to_database returns
CreateDatabaseFails ==
    /\ upc = "create_db"
    /\ dbLog' = Append(dbLog, [run |-> run, ok |-> FALSE])
    /\ upc' = "idle"
    /\ UNCHANGED <<NOTION_DATABASE_ID, databases, run, html, infobox_data,
                   chunk_idx, createLog, excludes_archived>>
    /\ UNCHANGED chunkVars
    /\ UNCHANGED guiVars
    /\ UNCHANGED combineVars
    /\ UNCHANGED parseVars
    /\ CanFail
    /\ Failed

\* the record pages.create makes
CreatedRecord(name, properties, children) ==
    [name |-> name, children |-> children, archived |-> FALSE,
     properties |-> properties]

\* a call of pages.create: its arguments, the number of its children, which
\* are page number chunk of page_chunks, and whether it succeeded
CreateCall(name, properties, children, chunk, ok) ==
    [db |-> NOTION_DATABASE_ID, name |-> name, properties |-> properties,
     n_children |-> Len(children), chunk |-> chunk, ok |-> ok]

\* the call of combine_pages_into_single after the last page was created
CallCombine ==
    /\ pc' = "query"
    /\ orig' = store'
    /\ pages' = <<>>
    /\ main_page' = 0
    /\ part_pages' = <<>>
    /\ all_blocks' = <<>>
    /\ i' = 0
    /\ part_idx' = 1
    /\ arch_idx' = 1
    /\ result' = "pending"
    /\ fetchLog' = <<>>
    /\ appendLog' = <<>>
    /\ archiveLog' = <<>>

\* pages.create was called for all pages up to idx of chunks
AfterCreate(idx, chunks) ==
    IF idx < Len(chunks) THEN "create_part" ELSE "combine"

\* first_page_blocks
FirstPageBlocks(chunks) ==
    IF chunks # <<>> THEN validate_blocks(chunks[1]) ELSE <<>>

\* parse_html_to_blocks and the creation of the main page
CreateMainPage ==
    /\ upc = "create_main"
    /\ page_chunks' = ParsedPages(html)
    /\ LET children == FirstPageBlocks(page_chunks')
       IN  /\ store' = Append(store, CreatedRecord(title, infobox_data, children))
           /\ createLog' = Append(createLog, CreateCall(title, infobox_data, children, 1, TRUE))
    /\ chunk_idx' = 2
    /\ upc' = AfterCreate(1, page_chunks')
    /\ IF upc' = "combine"
       THEN CallCombine
       ELSE UNCHANGED <<orig, pc, pages, main_page, part_pages, all_blocks, i,
                        part_idx, arch_idx, result, fetchLog, appendLog, archiveLog>>
    /\ UNCHANGED <<title, NOTION_DATABASE_ID, databases, run, html, infobox_data,
                   dbLog, excludes_archived>>
    /\ UNCHANGED chunkVars
    /\ UNCHANGED guiVars
    /\ UNCHANGED <<ppc, doc_blocks, n_elems, max_blocks_per_page, blocks_in, validated>>
    /\ UNCHANGED fail_budget

\* pages.create raises: the handler of the try prints and returns
CreateMainPageFails ==
    /\ upc = "create_main"
    /\ page_chunks' = ParsedPages(html)
    /\ createLog' = Append(createLog,
            CreateCall(title, infobox_data, FirstPageBlocks(page_chunks'), 1, FALSE))
    /\ upc' = "idle"
    /\ UNCHANGED <<NOTION_DATABASE_ID, databases, run, html, infobox_data,
                   chunk_idx, dbLog, excludes_archived>>
    /\ UNCHANGED chunkVars
    /\ UNCHANGED guiVars
    /\ UNCHANGED combineVars
    /\ UNCHANGED <<ppc, doc_blocks, n_elems, max_blocks_per_page, blocks_in, validated>>
    /\ CanFail
    /\ Failed

\* PartNumberOf with enumerate starting at 1
PartNumberFromOne(idx) == idx - 1

\* the i of enumerate(page_chunks[1:], 2) for the chunk at index idx
PartNumberOf(idx) == idx

\* the creation of one additional page
CreatePartPage ==
    /\ upc = "create_part"
    /\ LET name == PartName(title, PartNumberOf(chunk_idx))
           children == validate_blocks(page_chunks[chunk_idx])
       IN  /\ store' = Append(store, CreatedRecord(name, <<>>, children))
           /\ createLog' = Append(createLog, CreateCall(name, <<>>, children, chunk_idx, TRUE))
    /\ chunk_idx' = chunk_idx + 1
    /\ upc' = AfterCreate(chunk_idx, page_chunks)
    /\ IF upc' = "combine"
       THEN CallCombine
       ELSE UNCHANGED <<orig, pc, pages, main_page, part_pages, all_blocks, i,
                        part_idx, arch_idx, result, fetchLog, appendLog, archiveLog>>
    /\ UNCHANGED <<title, NOTION_DATABASE_ID, databases, run, html, infobox_data,
                   dbLog, excludes_archived>>
    /\ UNCHANGED chunkVars
    /\ UNCHANGED guiVars
    /\ UNCHANGED parseVars
    /\ UNCHANGED fail_budget

\* CreatePartPageFails with the exception swallowed inside the loop
CreatePartPageFailsContinues ==
    /\ upc = "create_part"
    /\ createLog' = Append(createLog,
            CreateCall(PartName(title, chunk_idx), <<>>,
                       validate_blocks(page_chunks[chunk_idx]), chunk_idx, FALSE))
    /\ store' = store
    /\ chunk_idx' = chunk_idx + 1
    /\ upc' = IF chunk_idx < Len(page_chunks) THEN "create_part" ELSE "combine"
    /\ IF upc' = "combine"
       THEN CallCombine
       ELSE UNCHANGED <<orig, pc, pages, main_page, part_pages, all_blocks, i,
                        part_idx, arch_idx, result, fetchLog, appendLog, archiveLog>>
    /\ UNCHANGED <<title, NOTION_DATABASE_ID, databases, run, html,
                   infobox_data, dbLog, excludes_archived>>
    /\ UNCHANGED chunkVars
    /\ UNCHANGED guiVars
    /\ UNCHANGED parseVars
    /\ CanFail
    /\ Failed

CreatePartPageFails ==
    /\ upc = "create_part"
    /\ createLog' = Append(createLog,
            CreateCall(PartName(title, PartNumberOf(chunk_idx)), <<>>,
                       validate_blocks(page_chunks[chunk_idx]), chunk_idx, FALSE))
    /\ upc' = "idle"
    /\ UNCHANGED <<NOTION_DATABASE_ID, databases, run, html, infobox_data,
                   chunk_idx, dbLog, excludes_archived>>
    /\ UNCHANGED chunkVars
    /\ UNCHANGED guiVars
    /\ UNCHANGED combineVars
    /\ UNCHANGED parseVars
    /\ CanFail
    /\ Failed

\* combine_pages_into_single has returned or raised: add_article_to_database
\* prints the outcome and returns
FinishRun ==
    /\ upc = "combine"
    /\ pc = "done"
    /\ upc' = "idle"
    /\ pc' = "idle"
    /\ orig' = <<>>
    /\ pages' = <<>>
    /\ main_page' = 0
    /\ part_pages' = <<>>
    /\ all_blocks' = <<>>
    /\ i' = 0
    /\ part_idx' = 1
    /\ arch_idx' = 1
    /\ result' = "pending"
    /\ fetchLog' = <<>>
    /\ appendLog' = <<>>
    /\ archiveLog' = <<>>
    /\ UNCHANGED <<title, store>>
    /\ UNCHANGED <<NOTION_DATABASE_ID, databases, run, html, infobox_data,
                   chunk_idx, createLog, dbLog, excludes_archived>>
    /\ UNCHANGED chunkVars
    /\ UNCHANGED guiVars
    /\ UNCHANGED parseVars
    /\ UNCHANGED fail_budget

\* the process starts: nothing was imported, the collection does not exist
InitUpload ==
    /\ ParseIdle
    /\ UploadIdle
    /\ CombineIdle
    /\ excludes_archived = FALSE
    /\ ChunkIdle
    /\ GuiIdle
    /\ fail_budget = MaxFailures

NextUpload ==
    \/ FetchArticle
    \/ FetchArticleFails
    \/ CreateDatabase
    \/ CreateDatabaseFails
    \/ CreateMainPage
    \/ CreateMainPageFails
    \/ CreatePartPage
    \/ CreatePartPageFails
    \/ GetDatabasePages
    \/ GetDatabasePagesFails
    \/ Classify
    \/ GetMainBlocks
    \/ GetMainBlocksFails
    \/ GetPartBlocks
    \/ GetPartBlocksFails
    \/ AppendBatch
    \/ AppendBatchFails
    \/ ArchivePart
    \/ ArchivePartFails
    \/ ReturnMainId
    \/ FinishRun

SpecUpload == InitUpload /\ [][NextUpload]_vars

\* ------------------------- validate_blocks on its own and in the upload
\* Either the process imports documents, or validate_blocks is called on a
\* list of blocks and add_article_to_database is not called (upc = "off")
InitValidate ==
    /\ \/ ppc = "idle" /\ upc = "idle"
       \/ ppc = "start" /\ upc = "off"
    /\ doc_blocks = <<>>
    /\ n_elems = 0
    /\ max_blocks_per_page = 0
    /\ page_chunks = <<>>
    /\ blocks_in = <<>>
    /\ validated = <<>>
    /\ NOTION_DATABASE_ID = 0
    /\ databases = <<>>
    /\ run = 0
    /\ html = NoDocument
    /\ infobox_data = <<>>
    /\ chunk_idx = 1
    /\ createLog = <<>>
    /\ dbLog = <<>>
    /\ CombineIdle
    /\ excludes_archived = FALSE
    /\ ChunkIdle
    /\ GuiIdle
    /\ fail_budget = MaxFailures

NextValidate ==
    \/ ValidateInput
    \/ FetchArticle
    \/ FetchArticleFails
    \/ CreateDatabase
    \/ CreateDatabaseFails
    \/ CreateMainPage
    \/ CreateMainPageFails
    \/ CreatePartPage
    \/ CreatePartPageFails
    \/ GetDatabasePages
    \/ GetDatabasePagesFails
    \/ Classify
    \/ GetMainBlocks
    \/ GetMainBlocksFails
    \/ GetPartBlocks
    \/ GetPartBlocksFails
    \/ AppendBatch
    \/ AppendBatchFails
    \/ ArchivePart
    \/ ArchivePartFails
    \/ ReturnMainId
    \/ FinishRun

SpecValidate == InitValidate /\ [][NextValidate]_vars

\* ------------------------------------------- extract_infobox on its own
InitInfobox ==
    /\ ParseIdle
    /\ CombineIdle
    /\ excludes_archived = FALSE
    /\ ChunkIdle
    /\ GuiIdle
    /\ fail_budget = 0
    /\ NOTION_DATABASE_ID = 0
    /\ databases = <<>>
    /\ upc = "idle"
    /\ run = 0
    /\ \E box \in Infoboxes : html = [infobox |-> box, paragraphs |-> 0]
    /\ infobox_data = <<>>
    /\ chunk_idx = 1
    /\ createLog = <<>>
    /\ dbLog = <<>>

NextInfobox == ExtractInfobox

SpecInfobox == InitInfobox /\ [][NextInfobox]_vars

\* ------------------------------------------- safe_chunk_text on its own
\* Lengths of the texts safe_chunk_text is applied to: around MAX_LENGTH and
\* around the multiples of the stride of the loop
ChunkLens ==
    {len \in {MAX_LENGTH - 1, MAX_LENGTH, MAX_LENGTH + 1}
            \cup {ChunkStride * k + d : k \in 0..MaxStrides,
                                        d \in {-1, 0, 1, ChunkStride \div 2}} :
        len > 0}

\* the block types safe_chunk_text is called with
ChunkTypes == {"paragraph", "bulleted_list_item", "numbered_list_item"}

InitChunk ==
    /\ ParseIdle
    /\ CombineIdle
    /\ UploadIdle
    /\ excludes_archived = FALSE
    /\ fail_budget = 0
    /\ \E len \in ChunkLens : text = Src(1, len)
    /\ block_type \in ChunkTypes
    /\ chunks_out = <<>>
    /\ GuiIdle

\* the call safe_chunk_text(text, block_type)
SafeChunkText ==
    /\ chunks_out = <<>>
    /\ text # <<>>
    /\ chunks_out' = safe_chunk_text(text, block_type)
    /\ UNCHANGED <<text, block_type>>
    /\ UNCHANGED <<combineVars, parseVars, uploadVars, guiVars, excludes_archived,
                   fail_budget>>

NextChunk == SafeChunkText

SpecChunk == InitChunk /\ [][NextChunk]_vars

\* ------------------------- combine_pages_into_single called repeatedly
\* The collections of the records of one document: the primary and its
\* parts, listed by the store in any order
GroupNames ==
    {TheTitle, PartName(TheTitle, 2), PartName(TheTitle, 3), PartName(TheTitle, 10)}

GroupStores ==
    {st \in InitialStores : \A id \in 1..Len(st) : st[id].name \in GroupNames}

\* run counts the calls of combine_pages_into_single
InitRerun ==
    /\ ParseIdle
    /\ excludes_archived \in BOOLEAN
    /\ ChunkIdle
    /\ GuiIdle
    /\ fail_budget = MaxFailures
    /\ NOTION_DATABASE_ID = 0
    /\ databases = <<>>
    /\ upc = "idle"
    /\ run = 1
    /\ html = NoDocument
    /\ infobox_data = <<>>
    /\ chunk_idx = 1
    /\ createLog = <<>>
    /\ dbLog = <<>>
    /\ title = TheTitle
    /\ store \in GroupStores
    /\ orig = store
    /\ pc = "query"
    /\ pages = <<>>
    /\ main_page = 0
    /\ part_pages = <<>>
    /\ all_blocks = <<>>
    /\ i = 0
    /\ part_idx = 1
    /\ arch_idx = 1
    /\ result = "pending"
    /\ fetchLog = <<>>
    /\ appendLog = <<>>
    /\ archiveLog = <<>>

\* combine_pages_into_single is called again with the same arguments
CombineAgain ==
    /\ pc = "done"
    /\ run < MaxRuns
    /\ run' = run + 1
    /\ store' = store
    /\ CallCombine
    /\ UNCHANGED <<title, NOTION_DATABASE_ID, databases, upc, html, infobox_data,
                   chunk_idx, createLog, dbLog, excludes_archived>>
    /\ UNCHANGED chunkVars
    /\ UNCHANGED guiVars
    /\ UNCHANGED parseVars
    /\ UNCHANGED fail_budget

NextRerun ==
    \/ GetDatabasePages
    \/ GetDatabasePagesFails
    \/ Classify
    \/ GetMainBlocks
    \/ GetMainBlocksFails
    \/ GetPartBlocks
    \/ GetPartBlocksFails
    \/ AppendBatch
    \/ AppendBatchFails
    \/ ArchivePart
    \/ ArchivePartFails
    \/ ReturnMainId
    \/ CombineAgain

SpecRerun == InitRerun /\ [][NextRerun]_vars

\* =================================================================== claims
\* the text-length limit of the destination
MAX_TEXT_LEN == 2000

CeilDiv(a, b) == (a + b - 1) \div b

StartsWith(s, pre) == Len(s) >= Len(pre) /\ SubSeq(s, 1, Len(pre)) = pre

EndsWith(s, suf) ==
    Len(s) >= Len(suf) /\ SubSeq(s, Len(s) - Len(suf) + 1, Len(s)) = suf

\* the n of the "(Part n)" suffix of a name, -1 when it has none
SuffixNumber(name) ==
    LET ns == {n \in 0..99 :
                EndsWith(name, <<"(", "P", "a", "r", "t", " ">> \o IntToStr(n) \o <<")">>)}
    IN  IF ns = {} THEN -1 ELSE CHOOSE n \in ns : TRUE

\* SuffixNumber of every name a record may have
SuffixNumbers == [name \in RecordNames |-> SuffixNumber(name)]

OrigNames == {orig[id].name : id \in DOMAIN orig}

OrigId(name) == CHOOSE id \in DOMAIN orig : orig[id].name = name

\* the names of a group uploaded as a primary and Part 2..N
UploadedGroup(n) == {TheTitle} \cup {PartName(TheTitle, k) : k \in 2..n}

\* the children of the records of that group, in ascending part order
GroupChildren(n) ==
    Concat([k \in 1..n |->
        orig[OrigId(IF k = 1 THEN TheTitle ELSE PartName(TheTitle, k))].children])

Batches(log) == [k \in 1..Len(log) |-> log[k].batch]

OkBatches(log) == [k \in 1..Len(log) |-> IF log[k].ok THEN log[k].batch ELSE <<>>]

FailedCalls(log) == {k \in 1..Len(log) : ~log[k].ok}

Ids(log) == [k \in 1..Len(log) |-> log[k].id]

\* the collection loops of combine_pages_into_single are over
CollectionDone ==
    \/ pc \in {"append", "archive", "return"}
    \/ pc = "done" /\ (result = "main_id" \/ appendLog # <<>>)

\* C1: after combine_pages_into_single succeeds on a group uploaded as a
\* primary and Part 2..N, the children of the primary are the children the
\* primary had before, followed by those of Part 2, ..., Part N, every block
\* exactly once.
C1_ReassemblyComplete ==
    \A n \in 1..MaxRecords :
        (pc = "done" /\ result = "main_id" /\ OrigNames = UploadedGroup(n))
            => store[OrigId(TheTitle)].children = GroupChildren(n)

\* C2: every block parse_html_to_blocks returns and every block
\* validate_blocks returns has a text of at most MAX_TEXT_LEN characters.
C2_TextLengthBounded ==
    /\ \A k \in 1..Len(doc_blocks) :
        HasText(doc_blocks[k]) => TLen(doc_blocks[k].text) <= MAX_TEXT_LEN
    /\ \A p \in 1..Len(page_chunks) : \A k \in 1..Len(page_chunks[p]) :
        HasText(page_chunks[p][k]) => TLen(page_chunks[p][k].text) <= MAX_TEXT_LEN
    /\ \A k \in 1..Len(validated) :
        HasText(validated[k]) => TLen(validated[k].text) <= MAX_TEXT_LEN

\* a table longer than the callout limit was encoded, paginated and validated
C2_Witness ==
    /\ ppc = "validated"
    /\ \E k \in 1..Len(validated) :
        /\ validated[k].type = "callout"
        /\ \E j \in 1..Len(validated[k].text) : validated[k].text[j].s = "truncated"

RECURSIVE SumLen(_)
SumLen(ss) == IF ss = <<>> THEN 0 ELSE Len(Head(ss)) + SumLen(Tail(ss))

\* C3: for L blocks and max_blocks_per_page M >= 1 the paginator returns
\* ceil(L/M) pages, each of at most M blocks, all but the last of exactly M,
\* and their lengths sum to L.
C3_PageSizes ==
    ppc = "paged" =>
        LET L == Len(doc_blocks)
            M == max_blocks_per_page
            N == Len(page_chunks)
        IN  /\ N = CeilDiv(L, M)
            /\ \A k \in 1..N : Len(page_chunks[k]) <= M
            /\ \A k \in 1..(N - 1) : Len(page_chunks[k]) = M
            /\ SumLen(page_chunks) = L

\* three pages or more, the last one shorter than the others
C3_Witness ==
    /\ ppc = "paged"
    /\ Len(page_chunks) >= 3
    /\ max_blocks_per_page >= 2
    /\ Len(page_chunks[Len(page_chunks)]) < max_blocks_per_page

\* C4: the pages concatenated in page order, then block order, are the
\* flat block sequence.
C4_PagesConcatToBlocks ==
    ppc = "paged" => Concat(page_chunks) = doc_blocks

\* several pages of several blocks each, of a document with chunked text
C4_Witness ==
    /\ ppc = "paged"
    /\ Len(page_chunks) >= 2
    /\ max_blocks_per_page >= 2
    /\ Len(doc_blocks) >= 5

\* C5: the append calls of a reassembly are made on the primary, in the
\* order of the collected sequence: each carries at most batch_size blocks,
\* each but the last of the ceil(n/50) exactly batch_size, the batches
\* concatenated in call order are a prefix of the collected sequence, and
\* once the loop is over without a failed call there are exactly ceil(n/50)
\* calls that carry the whole sequence.
C5_BatchedAppends ==
    LET n == Len(all_blocks)
        calls == Len(appendLog)
        sent == Concat(Batches(appendLog))
    IN  /\ calls <= CeilDiv(n, 50)
        /\ \A k \in 1..calls :
            /\ appendLog[k].id = main_page
            /\ Len(appendLog[k].batch) <= 50
            /\ k < CeilDiv(n, 50) => Len(appendLog[k].batch) = 50
        /\ sent = SubSeq(all_blocks, 1, Len(sent))
        /\ (CollectionDone /\ pc # "append" /\ FailedCalls(appendLog) = {})
            => calls = CeilDiv(n, 50) /\ sent = all_blocks

\* a reassembly that ended after two or more calls, the last one short
C5_Witness ==
    /\ pc = "done"
    /\ result = "main_id"
    /\ Len(appendLog) >= 2
    /\ Len(appendLog[Len(appendLog)].batch) < 50
    /\ Len(appendLog[1].batch) = 50

\* C6: the auxiliaries are ordered ascending by the number of their
\* "(Part n)" suffix, and the blocks are collected from the primary first
\* and then from the auxiliaries in that order.
C6_NumericPartOrder ==
    (main_page # 0 /\ result # "raise") =>
        /\ \A a, b \in 1..Len(part_pages) :
            a < b => SuffixNumbers[NameOf(part_pages[a])] <= SuffixNumbers[NameOf(part_pages[b])]
        /\ Len(part_pages) = Len(PartsOf(pages, title))
        /\ {part_pages[k] : k \in 1..Len(part_pages)}
            = {pages[k] : k \in {j \in 1..Len(pages) : IsPartName(NameOf(pages[j]), title)}}
        /\ CollectionDone =>
            /\ Ids(fetchLog) = <<main_page>> \o part_pages
            /\ all_blocks = Concat([k \in 1..Len(fetchLog) |->
                    IF fetchLog[k].ok THEN orig[fetchLog[k].id].children ELSE <<>>])

\* Part 2, Part 10 and Part 3 were discovered in that order and collected
\* in the order 2, 3, 10
C6_Witness ==
    /\ CollectionDone
    /\ Len(part_pages) = 3
    /\ {PartName(TheTitle, 2), PartName(TheTitle, 3), PartName(TheTitle, 10)} \subseteq OrigNames
    /\ PartsOf(pages, title) = <<OrigId(PartName(TheTitle, 2)),
                                 OrigId(PartName(TheTitle, 10)),
                                 OrigId(PartName(TheTitle, 3))>>
    /\ [k \in 1..3 |-> NameOf(part_pages[k])]
        = <<PartName(TheTitle, 2), PartName(TheTitle, 3), PartName(TheTitle, 10)>>
    /\ \A k \in 1..Len(fetchLog) : fetchLog[k].ok

\* C7: the primary is the record named title, and blocks are collected from
\* and the archived flag is set on only the primary (collection) and records
\* whose names start with "title (Part ".
C7_AuxiliariesArePrefixed ==
    LET IsAux(id) == StartsWith(NameOf(id), PartMarker(title) \o <<" ">>)
    IN  /\ main_page # 0 => NameOf(main_page) = title
        /\ \A k \in 1..Len(fetchLog) :
            fetchLog[k].id = main_page \/ IsAux(fetchLog[k].id)
        /\ \A k \in 1..Len(archiveLog) : IsAux(archiveLog[k].id)

\* C8: an auxiliary is archived only after every batch append has
\* succeeded; a failed append is the last call of the reassembly, which
\* returns None with no record archived and the primary holding its former
\* children and the batches appended before the failure.
C8_NoArchiveBeforeAppends ==
    /\ archiveLog # <<>> =>
        /\ FailedCalls(appendLog) = {}
        /\ Concat(Batches(appendLog)) = all_blocks
    /\ FailedCalls(appendLog) # {} =>
        /\ FailedCalls(appendLog) = {Len(appendLog)}
        /\ archiveLog = <<>>
        /\ \A id \in DOMAIN store : ~store[id].archived
        /\ pc = "done"
        /\ result = "None"
        /\ store[main_page].children
            = orig[main_page].children \o Concat(OkBatches(appendLog))

\* the second or a later batch of a group with auxiliaries failed
C8_Witness ==
    /\ pc = "done"
    /\ Len(appendLog) >= 2
    /\ ~appendLog[Len(appendLog)].ok
    /\ part_pages # <<>>

\* C9: after an archive call failed the remaining auxiliaries are still
\* attempted in order, the blocks appended to the primary stay, and the
\* reassembly returns the id of the primary.
C9_ArchiveFailureTolerated ==
    /\ \A k \in 1..Len(archiveLog) :
        archiveLog[k].ok => store[archiveLog[k].id].archived
    /\ FailedCalls(archiveLog) # {} =>
        /\ Ids(archiveLog) = SubSeq(part_pages, 1, Len(archiveLog))
        /\ pc \in {"archive", "return", "done"}
        /\ pc = "archive" => Len(archiveLog) < Len(part_pages)
        /\ pc \in {"return", "done"} => Len(archiveLog) = Len(part_pages)
        /\ pc = "done" => result = "main_id"
        /\ store[main_page].children = orig[main_page].children \o all_blocks

\* the first archive call failed, the second one was made and succeeded
C9_Witness ==
    /\ pc = "done"
    /\ Len(archiveLog) >= 2
    /\ ~archiveLog[1].ok
    /\ archiveLog[2].ok
    /\ all_blocks # <<>>

\* C10: when no discovered record is named title, the reassembly returns
\* None without raising and makes no append and no archive call.
C10_NoPrimaryReturnsNone ==
    (pc = "done" /\ \A k \in 1..Len(pages) : NameOf(pages[k]) # title)
        => /\ result = "None"
           /\ appendLog = <<>>
           /\ archiveLog = <<>>

\* the records the create calls of the current run made are the last
\* records of the store: the id of the record of the k-th call
CreatedId(k) == Len(store) - Len(createLog) + k

\* C11: a fully successful upload of a document of N pages has made exactly
\* N create calls (one when N = 0), all in the collection: the first for the
\* primary, named title, with the extracted fields as properties and the
\* first page as children, the k-th for the auxiliary named
\* "title (Part k)", without fields and with the k-th page as children.
C11_UploadCreatesPages ==
    upc = "combine" =>
        LET N == Len(page_chunks)
            n == Len(createLog)
        IN  /\ pc = "query" => page_chunks = ParsedPages(html)
            /\ n = IF N = 0 THEN 1 ELSE N
            /\ \A k \in 1..n :
                /\ createLog[k].ok
                /\ createLog[k].db = NOTION_DATABASE_ID
                /\ createLog[k].name
                    = IF k = 1 THEN title
                      ELSE title \o <<" ", "(", "P", "a", "r", "t", " ">>
                                 \o IntToStr(k) \o <<")">>
                /\ createLog[k].properties
                    = IF k = 1 THEN extract_infobox(html.infobox) ELSE <<>>
                /\ createLog[k].chunk = k
                /\ store[CreatedId(k)].name = createLog[k].name
                /\ store[CreatedId(k)].properties = createLog[k].properties
                /\ pc = "query" =>
                    /\ store[CreatedId(k)].children
                        = IF N = 0 THEN <<>> ELSE page_chunks[k]
                    /\ ~store[CreatedId(k)].archived

\* a document with fields was uploaded as a primary, Part 2 and Part 3
C11_Witness ==
    /\ upc = "combine"
    /\ pc = "query"
    /\ Len(createLog) >= 3
    /\ infobox_data # <<>>

\* C12: a failed create call is the last store call of the run: no later
\* page is created and reassembly is not started, and the records created
\* before it stay in the store, not archived; reassembly is started only
\* after the create calls of all pages have succeeded.
C12_FailedCreateStopsRun ==
    /\ FailedCalls(createLog) # {} =>
        /\ FailedCalls(createLog) = {Len(createLog)}
        /\ upc = "idle"
        /\ pc = "idle"
        /\ fetchLog = <<>> /\ appendLog = <<>> /\ archiveLog = <<>>
        /\ \A k \in 1..(Len(createLog) - 1) :
            LET id == Len(store) - (Len(createLog) - 1) + k
            IN  /\ store[id].name = createLog[k].name
                /\ store[id].children = page_chunks[k]
                /\ ~store[id].archived
    /\ pc # "idle" =>
        /\ FailedCalls(createLog) = {}
        /\ Len(createLog) = IF page_chunks = <<>> THEN 1 ELSE Len(page_chunks)

\* the create call of Part 2 of a document of three pages failed
C12_Witness ==
    /\ upc = "idle"
    /\ Len(createLog) = 2
    /\ ~createLog[2].ok
    /\ Len(page_chunks) >= 3

\* the ids of the calls of a log that succeeded
OkIds(log) == {log[k].id : k \in {j \in 1..Len(log) : log[j].ok}}

\* C13: a failed query, a failed getChildren and a failed appendChildren each
\* make combine_pages_into_single return None, and a part page is archived
\* only after its children were fetched successfully.
C13_StoreFailureAborts ==
    /\ (pc = "done" /\ FailedCalls(fetchLog) \cup FailedCalls(appendLog) # {})
        => result = "None"
    /\ OkIds(archiveLog) \subseteq OkIds(fetchLog)

\* C14: the database is created at most once in a run and never after a
\* creation that succeeded, and a run whose creation failed ends with no
\* create call for a record and without reassembly.
C14_DatabaseCreatedOnce ==
    /\ \A a, b \in 1..Len(dbLog) : a < b =>
        /\ dbLog[a].run < dbLog[b].run
        /\ ~dbLog[a].ok
    /\ Len(databases) = Cardinality({a \in 1..Len(dbLog) : dbLog[a].ok})
    /\ Len(databases) <= 1
    /\ (NOTION_DATABASE_ID # 0) = (databases # <<>>)
    /\ (dbLog # <<>> /\ ~dbLog[Len(dbLog)].ok /\ dbLog[Len(dbLog)].run = run) =>
        /\ createLog = <<>>
        /\ upc = "idle"
        /\ pc = "idle"
        /\ fetchLog = <<>> /\ appendLog = <<>> /\ archiveLog = <<>>

\* the first run failed to create the database, the second created it and
\* uploaded its document
C14_Witness ==
    /\ run = 2
    /\ Len(dbLog) = 2
    /\ ~dbLog[1].ok
    /\ dbLog[2].ok
    /\ upc = "combine"
    /\ createLog # <<>>

\* s is the beginning of t
IsPrefix(s, t) == Len(s) <= Len(t) /\ SubSeq(t, 1, Len(s)) = s

\* one step of upload or reassembly on the store
C15_Step ==
    /\ Len(store') >= Len(store)
    /\ \A id \in 1..Len(store) :
        /\ [store'[id] EXCEPT !.children = store[id].children,
                              !.archived = store[id].archived] = store[id]
        /\ store[id].archived => store'[id].archived
        /\ IsPrefix(store[id].children, store'[id].children)
        /\ store'[id].children # store[id].children =>
            /\ id = main_page
            /\ store[id].name = title
        /\ (store'[id].archived /\ ~store[id].archived) =>
            /\ id # main_page
            /\ store[id].name # title
            /\ \E k \in 1..Len(part_pages) : part_pages[k] = id
            /\ store'[id].children = store[id].children
    /\ \A id \in (Len(store) + 1)..Len(store') : ~store'[id].archived

Rows == html.infobox.rows

\* the text from the first to the last character of s that is not a blank
Trimmed(s) ==
    LET solid == {k \in 1..Len(s) : s[k] # " "}
    IN  IF solid = {} THEN <<>>
        ELSE SubSeq(s, CHOOSE a \in solid : \A b \in solid : a <= b,
                       CHOOSE a \in solid : \A b \in solid : b <= a)

\* the rows with a header cell and a data cell, a key and a value
FullRows ==
    {k \in 1..Len(Rows) :
        /\ Rows[k].has_th /\ Rows[k].has_td
        /\ Trimmed(Rows[k].th) # <<>> /\ Trimmed(Rows[k].td) # <<>>}

ScenarioB ==
    <<InfoboxRow(TRUE, Born, TRUE, Jan1900),
      InfoboxRow(TRUE, <<>>, TRUE, Ignored),
      InfoboxRow(TRUE, Died, TRUE, Feb2000)>>

\* C16: extract_infobox returns the mapping whose keys are the keys of the
\* rows with a header cell and a data cell, a key and a value, each key with
\* the value of its last such row; without an infobox it returns the empty
\* mapping, and for the rows (Born, 1 Jan 1900), ('', ignored),
\* (Died, 2 Feb 2000) it returns Born and Died with their values.
C16_InfoboxExtraction ==
    upc = "extracted" =>
        /\ DOMAIN infobox_data = {Trimmed(Rows[k].th) : k \in FullRows}
        /\ \A k \in FullRows :
            (\A j \in FullRows : j > k => Trimmed(Rows[j].th) # Trimmed(Rows[k].th))
                => infobox_data[Trimmed(Rows[k].th)] = Trimmed(Rows[k].td)
        /\ ~html.infobox.present => infobox_data = <<>>
        /\ Rows = ScenarioB =>
            /\ DOMAIN infobox_data = {Born, Died}
            /\ infobox_data[Born] = Jan1900
            /\ infobox_data[Died] = Feb2000

\* the infobox of Scenario B was extracted
C16_Witness ==
    /\ upc = "extracted"
    /\ html.infobox.present
    /\ Rows = ScenarioB
    /\ DOMAIN infobox_data = {Born, Died}

\* the group of title is Merged in the collection st: the primary is there
\* and the parts, at least one, are all archived
MergedIn(st) ==
    /\ \E id \in 1..Len(st) : st[id].name = title /\ ~st[id].archived
    /\ \E id \in 1..Len(st) : IsPartName(st[id].name, title)
    /\ \A id \in 1..Len(st) : IsPartName(st[id].name, title) => st[id].archived

\* C17: when the query leaves out archived records, a call of
\* combine_pages_into_single on a group that is Merged finds no part page,
\* archives nothing and leaves the children of every record as they were.
C17_RerunIsNoOp ==
    (excludes_archived /\ pc = "done" /\ MergedIn(orig)) =>
        /\ part_pages = <<>>
        /\ archiveLog = <<>>
        /\ \A id \in 1..Len(orig) :
            /\ store[id].children = orig[id].children
            /\ store[id].archived = orig[id].archived

\* the texts of a list of blocks, concatenated in order
RECURSIVE TextOf(_)
TextOf(blocks) ==
    IF blocks = <<>> THEN <<>>
    ELSE TCat(Head(blocks).text, TextOf(Tail(blocks)))

\* C18: safe_chunk_text returns one block with the whole text when the text
\* has at most MAX_TEXT_LEN characters, and otherwise ceil(L / 1800) blocks
\* of the type asked for, each of at most 1800 characters, whose texts in
\* order make up the text; 4500 characters give blocks of 1800, 1800 and 900.
C18_ChunkingLaw ==
    chunks_out # <<>> =>
        LET L == TLen(text)
        IN  /\ L <= MAX_TEXT_LEN =>
                chunks_out = <<[type |-> block_type, text |-> text]>>
            /\ L > MAX_TEXT_LEN =>
                /\ Len(chunks_out) = CeilDiv(L, 1800)
                /\ \A k \in 1..Len(chunks_out) :
                    /\ chunks_out[k].type = block_type
                    /\ TLen(chunks_out[k].text) <= 1800
                /\ TextOf(chunks_out) = text
            /\ L = 4500 =>
                [k \in 1..Len(chunks_out) |-> TLen(chunks_out[k].text)] = <<1800, 1800, 900>>

\* a list item of 4500 characters was cut into three blocks
C18_Witness ==
    /\ TLen(text) = 4500
    /\ block_type = "bulleted_list_item"
    /\ Len(chunks_out) = 3

\* the summary callout: the callout with the summary text and the book icon
IsSummary(block) ==
    /\ block.type = "callout"
    /\ block.icon = "books"
    /\ block.text = <<[s |-> "summary", n |-> 0, lo |-> 0, hi |-> 129]>>

IsDivider(block) == block.type = "divider"

\* parse_html_to_blocks is past its first two statements
Encoding == ppc \in {"elements", "paged"}

\* C19 as stated: for a document without h2, h3, p, ul, ol and table
\* elements parse_html_to_blocks builds no block and returns no page.
C19_EmptyDocumentNoBlocks ==
    (ppc = "paged" /\ n_elems = 0) =>
        /\ doc_blocks = <<>>
        /\ page_chunks = <<>>

\* C19: for a document without h2, h3, p, ul, ol and table elements
\* parse_html_to_blocks builds exactly the summary callout and the divider
\* and returns them as one page, or as two pages of one block when
\* max_blocks_per_page is 1, without raising.
C19_EmptyDocumentTwoBlocks ==
    (Encoding /\ n_elems = 0) =>
        /\ Len(doc_blocks) = 2
        /\ IsSummary(doc_blocks[1])
        /\ IsDivider(doc_blocks[2])
        /\ ppc = "paged" =>
            page_chunks = IF max_blocks_per_page >= 2
                          THEN <<doc_blocks>>
                          ELSE <<<<doc_blocks[1]>>, <<doc_blocks[2]>>>>

\* a document without elements was split into pages of two or more blocks
C19_Witness ==
    /\ ppc = "paged"
    /\ n_elems = 0
    /\ max_blocks_per_page >= 2
    /\ Len(page_chunks) = 1

\* C20: all_blocks of parse_html_to_blocks begins with the summary callout
\* and a divider and holds the summary callout nowhere else; in the pages it
\* is the first block of the first page and no other block of any page.
C20_SummaryOnceAndFirst ==
    Encoding =>
        /\ Len(doc_blocks) >= 2
        /\ IsSummary(doc_blocks[1])
        /\ IsDivider(doc_blocks[2])
        /\ \A k \in 2..Len(doc_blocks) : ~IsSummary(doc_blocks[k])
        /\ ppc = "paged" =>
            /\ page_chunks # <<>>
            /\ \A p \in 1..Len(page_chunks) : \A k \in 1..Len(page_chunks[p]) :
                IsSummary(page_chunks[p][k]) <=> (p = 1 /\ k = 1)

\* a document with a table was split into several pages
C20_Witness ==
    /\ ppc = "paged"
    /\ Len(page_chunks) >= 2
    /\ \E k \in 2..Len(doc_blocks) : doc_blocks[k].type = "callout"

\* v is the block b with a text longer than MAX_TEXT_LEN cut to its first
\* MAX_TEXT_LEN characters, and b itself otherwise
IsCutOf(v, b) ==
    IF "text" \in DOMAIN b /\ TLen(b.text) > MAX_TEXT_LEN
    THEN /\ DOMAIN v = DOMAIN b
         /\ \A f \in DOMAIN b \ {"text"} : v[f] = b[f]
         /\ TLen(v.text) = MAX_TEXT_LEN
         /\ TCat(v.text, TDrop(b.text, MAX_TEXT_LEN)) = b.text
    ELSE v = b

\* the pages.create calls of the current run that succeeded
OkCreates == {k \in 1..Len(createLog) : createLog[k].ok}

\* the records of the current run are as pages.create made them
JustCreated ==
    /\ createLog # <<>>
    /\ pc \in {"idle", "query"}
    /\ upc \in {"create_part", "combine"} \/ FailedCalls(createLog) # {}

\* C21: validate_blocks returns as many blocks as it is given, in the same
\* order: each block with a text of more than 2000 characters cut to its
\* first 2000 characters and every other block, dividers included, as it
\* is; applied to its result it returns the result. The children of every
\* record add_article_to_database creates are validate_blocks of a page.
C21_ValidateBlocks ==
    /\ ppc = "validated" =>
        /\ Len(validated) = Len(blocks_in)
        /\ \A k \in 1..Len(validated) : IsCutOf(validated[k], blocks_in[k])
        /\ validate_blocks(validated) = validated
    /\ JustCreated =>
        \A k \in OkCreates :
            LET id == Len(store) - Cardinality(OkCreates) + k
                children == store[id].children
            IN  /\ Len(children) = Len(page_chunks[k])
                /\ \A j \in 1..Len(children) : IsCutOf(children[j], page_chunks[k][j])
                /\ validate_blocks(children) = children

\* validate_blocks was given a paragraph of 4500 characters and a divider
C21_Witness ==
    /\ ppc = "validated"
    /\ Len(blocks_in) = 2
    /\ blocks_in[1].type = "paragraph"
    /\ TLen(blocks_in[1].text) = 4500
    /\ TLen(validated[1].text) = 2000
    /\ blocks_in[2].type = "divider"
    /\ validated[2] = blocks_in[2]

\* the columns of the database with the given id
Schema(db) == databases[db].columns

\* C22: the database a record is created in has a column for every infobox
\* key of the document that is uploaded: every property written with a
\* main page is a column of its database.
C22_PropertiesInSchema ==
    /\ upc \in {"create_main", "create_part", "combine"} =>
        DOMAIN infobox_data \subseteq Schema(NOTION_DATABASE_ID)
    /\ \A k \in OkCreates :
        DOMAIN createLog[k].properties \subseteq Schema(createLog[k].db)

\* ---------------------------------------------------------------------
\* The window of gui.py: one import thread per click on the import button
\* ---------------------------------------------------------------------

\* the number of import threads a behaviour starts
MaxImports == 2

\* the characters of "https://en.wikipedia.org/wiki/"
WikiPrefix ==
    <<"h","t","t","p","s",":","/","/","e","n",".","w","i","k","i","p","e",
      "d","i","a",".","o","r","g","/","w","i","k","i","/">>

\* the texts the URL entry takes: empty, blank, not a Wikipedia address, an
\* article address, and an article address after a blank
Urls ==
    { <<>>, <<" ">>, <<"h","t","t","p",":","/","/","x">>,
      WikiPrefix \o <<"A">>, <<" ">> \o WikiPrefix \o <<"B">> }

\* the texts the token entry and the parent page entry take
Tokens == { <<>>, <<"s">> }
PageIds == { <<>>, <<" ">>, <<"p">> }

\* validate_inputs(): whether it returns True; it shows an error otherwise
validate_inputs ==
    LET url == StripBlanks(url_var)
        token == StripBlanks(token_var)
        page_id == StripBlanks(page_id_var)
    IN  /\ url # <<>>
        /\ StartsWith(url, WikiPrefix)
        /\ token # <<>>
        /\ page_id # <<>>

\* the window takes clicks and keys: no modal dialog is open
Interactive == messagebox = <<>>

\* the user edits the URL entry or picks an example
SetUrl ==
    /\ Interactive
    /\ \E u \in Urls : url_var' = u
    /\ UNCHANGED <<token_var, page_id_var, import_button, preview_button,
                   progress, status_label, messagebox, import_threads,
                   after_queue>>
    /\ UNCHANGED <<combineVars, parseVars, uploadVars, chunkVars,
                   excludes_archived, fail_budget>>

\* the user edits the token entry
SetToken ==
    /\ Interactive
    /\ \E t \in Tokens : token_var' = t
    /\ UNCHANGED <<url_var, page_id_var, import_button, preview_button,
                   progress, status_label, messagebox, import_threads,
                   after_queue>>
    /\ UNCHANGED <<combineVars, parseVars, uploadVars, chunkVars,
                   excludes_archived, fail_budget>>

\* the user edits the parent page entry
SetPageId ==
    /\ Interactive
    /\ \E p \in PageIds : page_id_var' = p
    /\ UNCHANGED <<url_var, token_var, import_button, preview_button,
                   progress, status_label, messagebox, import_threads,
                   after_queue>>
    /\ UNCHANGED <<combineVars, parseVars, uploadVars, chunkVars,
                   excludes_archived, fail_budget>>

\* clear_fields(), the command of the clear button
ClearFields ==
    /\ Interactive
    /\ url_var' = <<>>
    /\ status_label' = "Ready to import!"
    /\ UNCHANGED <<token_var, page_id_var, import_button, preview_button,
                   progress, messagebox, import_threads, after_queue>>
    /\ UNCHANGED <<combineVars, parseVars, uploadVars, chunkVars,
                   excludes_archived, fail_budget>>

\* a thread as threading.Thread(target=self.import_article).start() leaves it
NewThread == [pc |-> "started", url |-> <<>>]

\* start_import() without the two config(state='disabled') calls
StartImportButtonsEnabled ==
    /\ Interactive
    /\ import_button = "normal"
    /\ IF ~validate_inputs
       THEN /\ messagebox' = Append(messagebox, "error")
            /\ UNCHANGED <<import_button, preview_button, progress,
                           status_label, import_threads>>
       ELSE /\ Len(import_threads) < MaxImports
            /\ progress' = TRUE
            /\ status_label' = "Importing..."
            /\ import_threads' = Append(import_threads, NewThread)
            /\ UNCHANGED <<import_button, preview_button, messagebox>>
    /\ UNCHANGED <<url_var, token_var, page_id_var, after_queue>>
    /\ UNCHANGED <<combineVars, parseVars, uploadVars, chunkVars,
                   excludes_archived, fail_budget>>

\* start_import(), the command of the import button; a disabled button
\* does not invoke its command
StartImport ==
    /\ Interactive
    /\ import_button = "normal"
    /\ IF ~validate_inputs
       THEN /\ messagebox' = Append(messagebox, "error")
            /\ UNCHANGED <<import_button, preview_button, progress,
                           status_label, import_threads>>
       ELSE /\ Len(import_threads) < MaxImports
            /\ import_button' = "disabled"
            /\ preview_button' = "disabled"
            /\ progress' = TRUE
            /\ status_label' = "Importing..."
            /\ import_threads' = Append(import_threads, NewThread)
            /\ UNCHANGED messagebox
    /\ UNCHANGED <<url_var, token_var, page_id_var, after_queue>>
    /\ UNCHANGED <<combineVars, parseVars, uploadVars, chunkVars,
                   excludes_archived, fail_budget>>

\* preview_article(), the command of the preview button: it runs in the
\* main thread and ends with one of two status texts
PreviewArticle ==
    /\ Interactive
    /\ preview_button = "normal"
    /\ IF ~validate_inputs
       THEN /\ messagebox' = Append(messagebox, "error")
            /\ UNCHANGED status_label
       ELSE /\ status_label' \in {"Preview complete - ready to import!",
                                  "Preview failed"}
            /\ UNCHANGED messagebox
    /\ UNCHANGED <<url_var, token_var, page_id_var, import_button,
                   preview_button, progress, import_threads, after_queue>>
    /\ UNCHANGED <<combineVars, parseVars, uploadVars, chunkVars,
                   excludes_archived, fail_budget>>

\* test_connection(), the command of the test button, which is never
\* disabled
TestConnection ==
    /\ Interactive
    /\ IF ~validate_inputs
       THEN /\ messagebox' = Append(messagebox, "error")
            /\ UNCHANGED status_label
       ELSE /\ status_label' \in
                {"Connection successful!",
                 "Connection failed: Check your token",
                 "Connection failed: Check your page ID and permissions",
                 "Connection failed: Check your credentials"}
            /\ UNCHANGED messagebox
    /\ UNCHANGED <<url_var, token_var, page_id_var, import_button,
                   preview_button, progress, import_threads, after_queue>>
    /\ UNCHANGED <<combineVars, parseVars, uploadVars, chunkVars,
                   excludes_archived, fail_budget>>

\* the user closes the dialog on top
DismissMessagebox ==
    /\ messagebox # <<>>
    /\ messagebox' = SubSeq(messagebox, 1, Len(messagebox) - 1)
    /\ UNCHANGED <<url_var, token_var, page_id_var, import_button,
                   preview_button, progress, status_label, import_threads,
                   after_queue>>
    /\ UNCHANGED <<combineVars, parseVars, uploadVars, chunkVars,
                   excludes_archived, fail_budget>>

\* import_article() up to the call of add_article_to_database(url)
ImportArticleCalls(t) ==
    /\ import_threads[t].pc = "started"
    /\ import_threads' = [import_threads EXCEPT
            ![t] = [pc |-> "importing", url |-> StripBlanks(url_var)]]
    /\ UNCHANGED <<url_var, token_var, page_id_var, import_button,
                   preview_button, progress, status_label, messagebox,
                   after_queue>>
    /\ UNCHANGED <<combineVars, parseVars, uploadVars, chunkVars,
                   excludes_archived, fail_budget>>

\* add_article_to_database returns: root.after(0, import_complete, output, None)
ImportArticleReturns(t) ==
    /\ import_threads[t].pc = "importing"
    /\ import_threads' = [import_threads EXCEPT ![t].pc = "finished"]
    /\ after_queue' = Append(after_queue, [thread |-> t, error |-> FALSE])
    /\ UNCHANGED <<url_var, token_var, page_id_var, import_button,
                   preview_button, progress, status_label, messagebox>>
    /\ UNCHANGED <<combineVars, parseVars, uploadVars, chunkVars,
                   excludes_archived, fail_budget>>

\* an exception in import_article: root.after(0, import_complete, None, str(e))
ImportArticleRaises(t) ==
    /\ import_threads[t].pc \in {"started", "importing"}
    /\ import_threads' = [import_threads EXCEPT ![t].pc = "finished"]
    /\ after_queue' = Append(after_queue, [thread |-> t, error |-> TRUE])
    /\ UNCHANGED <<url_var, token_var, page_id_var, import_button,
                   preview_button, progress, status_label, messagebox>>
    /\ UNCHANGED <<combineVars, parseVars, uploadVars, chunkVars,
                   excludes_archived, fail_budget>>

\* the steps of the import threads
ImportThreadStep ==
    \E t \in 1..Len(import_threads) :
        \/ ImportArticleCalls(t)
        \/ ImportArticleReturns(t)
        \/ ImportArticleRaises(t)

\* import_complete(output, error), run by the main loop; a dialog that is
\* open runs the main loop too
ImportComplete ==
    /\ after_queue # <<>>
    /\ after_queue' = Tail(after_queue)
    /\ progress' = FALSE
    /\ import_button' = "normal"
    /\ preview_button' = "normal"
    /\ IF Head(after_queue).error
       THEN /\ status_label' = "Import failed"
            /\ messagebox' = Append(messagebox, "error")
       ELSE /\ status_label' = "Import completed successfully!"
            /\ messagebox' = Append(messagebox, "info")
    /\ UNCHANGED <<url_var, token_var, page_id_var, import_threads>>
    /\ UNCHANGED <<combineVars, parseVars, uploadVars, chunkVars,
                   excludes_archived, fail_budget>>

\* the window after main() built it
InitGui ==
    /\ ParseIdle
    /\ CombineIdle
    /\ UploadIdle
    /\ ChunkIdle
    /\ excludes_archived = FALSE
    /\ fail_budget = 0
    /\ url_var = <<>>
    /\ token_var \in Tokens
    /\ page_id_var \in PageIds
    /\ import_button = "normal"
    /\ preview_button = "normal"
    /\ progress = FALSE
    /\ status_label = "Ready to import!"
    /\ messagebox = <<>>
    /\ import_threads = <<>>
    /\ after_queue = <<>>

NextGui ==
    \/ SetUrl
    \/ SetToken
    \/ SetPageId
    \/ ClearFields
    \/ StartImport
    \/ PreviewArticle
    \/ TestConnection
    \/ DismissMessagebox
    \/ ImportThreadStep
    \/ ImportComplete

\* the threads run and end, and the main loop runs what root.after queued
SpecGui ==
    /\ InitGui
    /\ [][NextGui]_vars
    /\ WF_vars(ImportThreadStep)
    /\ WF_vars(ImportComplete)

\* the import threads whose pipeline has not ended
Unfinished == {t \in 1..Len(import_threads) : import_threads[t].pc # "finished"}

\* an import is under way: started, and import_complete has not run for it
Importing == Unfinished # {} \/ after_queue # <<>>

\* C23: at most one import thread runs at a time: from start_import until
\* import_complete has run, after a success and after a failure of the
\* thread alike, the import and the preview button are disabled, so that no
\* second thread is started before the pipeline of the first has ended,
\* and the buttons are enabled again afterwards.
C23_OneImportAtATime ==
    /\ [](/\ Cardinality(Unfinished) <= 1
          /\ Len(after_queue) <= 1
          /\ Importing => import_button = "disabled" /\ preview_button = "disabled"
          /\ ~Importing => import_button = "normal" /\ preview_button = "normal")
    /\ (import_button = "disabled" ~> import_button = "normal")
    /\ (preview_button = "disabled" ~> preview_button = "normal")

\* a second import runs, with the buttons disabled, after a first one that
\* failed and whose import_complete has run
C23_Witness ==
    /\ Len(import_threads) = 2
    /\ import_threads[1].pc = "finished"
    /\ import_threads[2].pc = "importing"
    /\ after_queue = <<>>
    /\ status_label = "Importing..."
    /\ import_button = "disabled"
    /\ preview_button = "disabled"

====
